---- MODULE Spec2Model ----
(***************************************************************************)
(* clean-corpus-platform: the local pipeline driver (build_local), the     *)
(* global fingerprint manager with its three stores, the priority resolver *)
(* and the checkpoint store, as one state machine.                         *)
(*                                                                         *)
(* Texts are sequences of one-character strings.  A SHA-256 digest is the  *)
(* tagged preimage (collision-free digest).  A 64-bit signature is the set *)
(* of its 1-bit positions.                                                 *)
(***************************************************************************)
EXTENDS Integers, Sequences, FiniteSets, TLC

(***************************************************************************)
(* Bounds of the model and program constants                               *)
(***************************************************************************)
MaxOps == 3            \* stage applications and restarts explored over one manager
ChunkSize == 2         \* configured chunk_size (characters), scaled down
MaxDocs == 3           \* documents in the source's stream
MaxCrashes == 1        \* process crashes explored per behaviour
MaxWriterFaults == 1   \* corpus-writer failures explored per behaviour
MaxShardDocs == 2      \* largest run.shard_docs explored
MaxLogEvery == 2       \* largest run.log_every_docs explored
MaxCkptEvery == 2      \* largest run.checkpoint_every_docs explored
MinChars == 3          \* quality policy min_chars
MaxSaves == 2          \* saves one run of the checkpoint store begins
MaxLabels == 2         \* longest priority list explored
MaxExisting == 2       \* most matching records of one query explored
MaxHammingConf == 3    \* largest configured max_hamming explored
MaxRecords == 2        \* records added to one SimHash store
MaxTextLen == 3        \* longest normalized text handed to the chunk loop
MaxChunkSize == 2      \* largest configured chunk_size explored
MaxOverlap == 2        \* largest configured chunk_overlap explored
MaxChunks == 4         \* iterations of the chunk loop explored
MaxSrcDocs == 2        \* records in the stream of each source of a multi-source run
MaxRestarts == 1       \* process crashes of a multi-source run explored

SimHashBits == 64
MaxHamming == 3
ChunkOverlap == 0
MinHashNgram == 5
MinHashThresholdPct == 90
DocIdPrefixLen == 512

(***************************************************************************)
(* Characters and text helpers                                             *)
(***************************************************************************)
\* str.lower() on the model's alphabet
Lower(c) == IF c = "A" THEN "a" ELSE IF c = "B" THEN "b" ELSE IF c = "W" THEN "w" ELSE c

LowerText(text) == [k \in 1..Len(text) |-> Lower(text[k])]

IsSpace(c) == c = " "

\* [A-Za-z0-9_]
IsWordChar(c) == c \in {"a", "b", "c", "d", "A", "B", "_"}

\* Python slice text[lo:hi] with 0-based lo, exclusive hi (both clipped to the text)
Slice(text, lo, hi) ==
    LET h == IF hi > Len(text) THEN Len(text) ELSE hi
    IN  IF lo >= h THEN <<>> ELSE SubSeq(text, lo + 1, h)

\* a slice index as Python reads it: a negative index counts from the end, and
\* the result is clipped to 0..len
SliceIndex(n, k) ==
    LET m == IF k < 0 THEN k + n ELSE k
    IN  IF m < 0 THEN 0 ELSE IF m > n THEN n ELSE m

\* Python slice text[lo:hi] for any integers lo and hi
PySlice(text, lo, hi) ==
    Slice(text, SliceIndex(Len(text), lo), SliceIndex(Len(text), hi))

RECURSIVE SplitFrom(_, _, _)
\* str.split(): the maximal runs of non-whitespace characters, in order
SplitFrom(text, k, cur) ==
    IF k > Len(text)
    THEN IF cur = <<>> THEN <<>> ELSE <<cur>>
    ELSE IF IsSpace(text[k])
         THEN (IF cur = <<>> THEN <<>> ELSE <<cur>>) \o SplitFrom(text, k + 1, <<>>)
         ELSE SplitFrom(text, k + 1, Append(cur, text[k]))

Split(text) == SplitFrom(text, 1, <<>>)

RECURSIVE JoinSpace(_)
\* " ".join(words)
JoinSpace(words) ==
    IF words = <<>> THEN <<>>
    ELSE IF Len(words) = 1 THEN words[1]
    ELSE words[1] \o <<" ">> \o JoinSpace(Tail(words))

\* chunk_hash_store._normalize_chunk
_normalize_chunk(text) == JoinSpace(Split(text))

RECURSIVE ChunkLoop(_, _, _, _)
\* the while loop of chunk_text, from position start
ChunkLoop(text, start, chunk_size, overlap) ==
    IF start >= Len(text) THEN <<>>
    ELSE LET end == start + chunk_size
             nxt == IF overlap # 0 THEN end - overlap ELSE end
         IN  <<Slice(text, start, end)>> \o ChunkLoop(text, nxt, chunk_size, overlap)

\* chunk_text on the normalized text t
ChunksOf(t, chunk_size, overlap) ==
    IF t = <<>> \/ chunk_size <= 0
    THEN (IF t # <<>> THEN <<t>> ELSE <<>>)
    ELSE ChunkLoop(t, 0, chunk_size, overlap)

\* chunk_hash_store.chunk_text
chunk_text(text, chunk_size, overlap) ==
    ChunksOf(_normalize_chunk(text), chunk_size, overlap)

\* utils.hashing.sha256_bytes: a collision-free digest, kept as its tagged preimage
sha256_bytes(text) == <<"sha256", text>>

\* the (hash, chunk_id) pairs of the chunks, chunk_id = str(i) from first_id on
HashChunks(chunks, first_id) ==
    [k \in 1..Len(chunks) |->
        [h |-> sha256_bytes(_normalize_chunk(chunks[k])),
         chunk_id |-> ToString(k - 1 + first_id)]]

\* a variant that numbers the chunks from 1
compute_chunk_hashes_shifted(text, chunk_size, overlap) ==
    HashChunks(chunk_text(text, chunk_size, overlap), 1)

\* ChunkHashStore.compute_chunk_hashes: [(hash, chunk_id)], chunk_id = str(i) for
\* the 0-based index i
compute_chunk_hashes(text, chunk_size, overlap) ==
    HashChunks(chunk_text(text, chunk_size, overlap), 0)

(***************************************************************************)
(* SimHash                                                                 *)
(***************************************************************************)
MaxTokens == 2000

RECURSIVE WordRuns(_, _, _)
\* _WORD_RE.findall: the maximal runs of word characters that are at least 2 long
WordRuns(text, k, cur) ==
    LET done == IF Len(cur) >= 2 THEN <<cur>> ELSE <<>>
    IN  IF k > Len(text) THEN done
        ELSE IF IsWordChar(text[k])
             THEN WordRuns(text, k + 1, Append(cur, text[k]))
             ELSE done \o WordRuns(text, k + 1, <<>>)

CharCode(c) ==
    CASE c = "a" -> 1 [] c = "b" -> 2 [] c = "c" -> 3 [] c = "d" -> 4
      [] c = "_" -> 5 [] c = "A" -> 6 [] c = "B" -> 7 [] OTHER -> 0

RECURSIVE TokCode(_)
TokCode(tok) ==
    IF tok = <<>> THEN 7
    ELSE (TokCode(SubSeq(tok, 1, Len(tok) - 1)) * 31 + CharCode(tok[Len(tok)])) % 8191

\* Python's built-in hash(str): some fixed 64-bit function of the string for each
\* per-process hash seed (PYTHONHASHSEED), given as the set of its 1-bit positions
PyHash(seed, tok) ==
    LET c == TokCode(tok) + seed * 4099 + 1
    IN  {b \in 0..(SimHashBits - 1) : ((c * (1009 + 2003 * b)) \div 1024) % 2 = 1}

RECURSIVE HashAll(_, _)
\* hash(t) for each token, in order
HashAll(seed, tokens) ==
    IF tokens = <<>> THEN <<>>
    ELSE <<PyHash(seed, Head(tokens))>> \o HashAll(seed, Tail(tokens))

\* the signature of the token hashes: bit b is set iff its signed count v[b] is
\* positive
SignatureOf(hashes) ==
    {b \in 0..(SimHashBits - 1) :
        2 * Cardinality({k \in 1..Len(hashes) : b \in hashes[k]}) > Len(hashes)}

\* simhash_store._simhash64
_simhash64(seed, tokens) == SignatureOf(HashAll(seed, tokens))

\* SimHashStore.compute_simhash
compute_simhash(seed, text) ==
    _simhash64(seed, Slice(WordRuns(LowerText(text), 1, <<>>), 0, MaxTokens))

\* a variant that counts only the bits set in a and clear in b
hamming_distance_one_sided(a, b) == Cardinality(a \ b)

\* simhash_store.hamming_distance: the number of 1 bits of a ^ b
hamming_distance(a, b) == Cardinality((a \ b) \cup (b \ a))

(***************************************************************************)
(* MinHash + LSH (datasketch)                                              *)
(***************************************************************************)
\* minhash_store._minhash_signature: the values fed to MinHash.update; the
\* signature is a function of this set alone
_minhash_signature(text, ngram) ==
    IF Len(text) < ngram THEN {text}
    ELSE LET step == IF ngram > 1 THEN ngram ELSE 1
         IN  {Slice(text, i, i + ngram) :
                i \in {j \in 0..(Len(text) - ngram) : j % step = 0}}

\* MinHashLSH.query on one stored signature: the two signatures share a band;
\* taken at the library's nominal behaviour, Jaccard similarity >= threshold
LshCollide(a, b) ==
    100 * Cardinality(a \cap b) >= MinHashThresholdPct * Cardinality(a \cup b)

(***************************************************************************)
(* Priority resolver                                                       *)
(***************************************************************************)
\* the characters of the names used as sources, labels and document types
Chars(name) ==
    CASE name = "A" -> <<"A">>
      [] name = "B" -> <<"B">>
      [] name = "C" -> <<"c">>
      [] name = "books" -> <<"b", "o", "o", "k", "s">>
      [] name = "web" -> <<"w", "e", "b">>
      [] name = "unknown" -> <<"u", "n", "k", "n", "o", "w", "n">>
      [] name = "Web" -> <<"W", "e", "b">>
      [] name = " web " -> <<" ", "w", "e", "b", " ">>
      [] name = "boo" -> <<"b", "o", "o">>
      [] name = "ok" -> <<"o", "k">>
      [] name = " " -> <<" ">>
      [] OTHER -> <<>>

RECURSIVE LStrip(_)
LStrip(t) == IF t # <<>> /\ IsSpace(t[1]) THEN LStrip(Tail(t)) ELSE t

RECURSIVE RStrip(_)
RStrip(t) ==
    IF t # <<>> /\ IsSpace(t[Len(t)]) THEN RStrip(SubSeq(t, 1, Len(t) - 1)) ELSE t

\* (name or "").strip().lower()
NormName(name) == LowerText(RStrip(LStrip(Chars(name))))

StartsWith(t, L) == Len(L) <= Len(t) /\ SubSeq(t, 1, Len(L)) = L

Contains(t, L) ==
    \E k \in 0..(Len(t) - Len(L)) : SubSeq(t, k + 1, k + Len(L)) = L

\* the label test shared by both rank functions: t == L or t.startswith(L) or L in t
LabelMatches(t, L) == t = L \/ StartsWith(t, L) \/ Contains(t, L)

\* a variant of the loop that keeps the last matching entry instead of returning
\* at the first
RankIn_last_match(name, order) ==
    IF order = <<>> THEN 0
    ELSE LET t == NormName(name)
             hits == {k \in 1..Len(order) :
                        NormName(order[k]) # <<>> /\ LabelMatches(t, NormName(order[k]))}
         IN  IF hits = {} THEN Len(order)
             ELSE (CHOOSE k \in hits : \A j \in hits : k >= j) - 1

RankIn(name, order) ==
    IF order = <<>> THEN 0
    ELSE LET t == NormName(name)
             hits == {k \in 1..Len(order) :
                        NormName(order[k]) # <<>> /\ LabelMatches(t, NormName(order[k]))}
         IN  IF hits = {} THEN Len(order)
             ELSE (CHOOSE k \in hits : \A j \in hits : k <= j) - 1

document_type_priority_rank(doc_type, type_order) == RankIn(doc_type, type_order)

source_priority_rank(source, priority_order) == RankIn(source, priority_order)

MinOf(S) == CHOOSE x \in S : \A y \in S : x <= y

SeqRange(s) == {s[k] : k \in 1..Len(s)}

\* a variant that lets the incoming source win a tie of ranks
should_keep_incoming_by_priority_ties(incoming_source, existing_sources, priority_order) ==
    IF priority_order = <<>> THEN FALSE
    ELSE LET incoming_rank == source_priority_rank(incoming_source, priority_order)
             existing_ranks ==
                 {source_priority_rank(s, priority_order) : s \in SeqRange(existing_sources)}
         IN  IF existing_ranks = {} THEN TRUE
             ELSE incoming_rank <= MinOf(existing_ranks)

should_keep_incoming_by_priority(incoming_source, existing_sources, priority_order) ==
    IF priority_order = <<>> THEN FALSE
    ELSE LET incoming_rank == source_priority_rank(incoming_source, priority_order)
             existing_ranks ==
                 {source_priority_rank(s, priority_order) : s \in SeqRange(existing_sources)}
         IN  IF existing_ranks = {} THEN TRUE
             ELSE incoming_rank < MinOf(existing_ranks)

\* source_to_document_type.get(s) or "unknown"
TypeOf(source, source_to_document_type) ==
    IF source \in DOMAIN source_to_document_type
    THEN source_to_document_type[source] ELSE "unknown"

\* a variant that keeps the incoming document on equal type rank when no source
\* priority is configured
should_keep_incoming_by_type_keeps_ties(incoming_source, existing_sources, document_type_priority, source_to_document_type, source_priority) ==
    IF document_type_priority = <<>> \/ DOMAIN source_to_document_type = {} THEN FALSE
    ELSE LET incoming_rank ==
                 document_type_priority_rank(
                     TypeOf(incoming_source, source_to_document_type), document_type_priority)
             existing_ranks ==
                 {document_type_priority_rank(
                      TypeOf(s, source_to_document_type), document_type_priority) :
                    s \in SeqRange(existing_sources)}
         IN  IF existing_ranks = {} THEN TRUE
             ELSE IF incoming_rank < MinOf(existing_ranks) THEN TRUE
             ELSE IF incoming_rank > MinOf(existing_ranks) THEN FALSE
             ELSE IF source_priority # <<>>
                  THEN should_keep_incoming_by_priority(
                           incoming_source, existing_sources, source_priority)
                  ELSE TRUE

\* a variant that never consults the source priority within a family
should_keep_incoming_by_type_only(incoming_source, existing_sources, document_type_priority, source_to_document_type, source_priority) ==
    IF document_type_priority = <<>> \/ DOMAIN source_to_document_type = {} THEN FALSE
    ELSE LET incoming_rank ==
                 document_type_priority_rank(
                     TypeOf(incoming_source, source_to_document_type), document_type_priority)
             existing_ranks ==
                 {document_type_priority_rank(
                      TypeOf(s, source_to_document_type), document_type_priority) :
                    s \in SeqRange(existing_sources)}
         IN  IF existing_ranks = {} THEN TRUE
             ELSE incoming_rank < MinOf(existing_ranks)

should_keep_incoming_by_type_and_source(incoming_source, existing_sources, document_type_priority, source_to_document_type, source_priority) ==
    IF document_type_priority = <<>> \/ DOMAIN source_to_document_type = {} THEN FALSE
    ELSE LET incoming_rank ==
                 document_type_priority_rank(
                     TypeOf(incoming_source, source_to_document_type), document_type_priority)
             existing_ranks ==
                 {document_type_priority_rank(
                      TypeOf(s, source_to_document_type), document_type_priority) :
                    s \in SeqRange(existing_sources)}
         IN  IF existing_ranks = {} THEN TRUE
             ELSE IF incoming_rank < MinOf(existing_ranks) THEN TRUE
             ELSE IF incoming_rank > MinOf(existing_ranks) THEN FALSE
             ELSE IF source_priority # <<>>
                  THEN should_keep_incoming_by_priority(
                           incoming_source, existing_sources, source_priority)
                  ELSE FALSE

(***************************************************************************)
(* Fingerprint stores and the global fingerprint manager                   *)
(***************************************************************************)
EmptyFn == [x \in {} |-> x]

RECURSIVE SetToSeq(_)
\* the elements of a finite set in some fixed order (a directory listing)
SetToSeq(S) ==
    IF S = {} THEN <<>>
    ELSE LET x == CHOOSE y \in S : TRUE IN <<x>> \o SetToSeq(S \ {x})

RECURSIVE Flatten(_)
Flatten(ss) == IF ss = <<>> THEN <<>> ELSE ss[1] \o Flatten(Tail(ss))

\* FingerprintRecord.create (fingerprint_id and created_at are not kept);
\* chunk_id is the decimal string of the index, "None" for None
FingerprintRecord(fingerprint_type, value, doc_id, source, chunk_id) ==
    [fingerprint_type |-> fingerprint_type, value |-> value, doc_id |-> doc_id,
     source |-> source, chunk_id |-> chunk_id]

\* FingerprintMetrics()
NewMetrics ==
    [total_checked |-> 0, total_dropped |-> 0, total_kept |-> 0, total_kept_linked |-> 0,
     simhash_hits |-> 0, minhash_hits |-> 0, chunk_hash_hits |-> 0,
     cross_dataset_collisions |-> 0]

\* a variant that counts every decision as a drop
record_decision_as_drop(metrics, dropped, kept_linked, match_type) ==
    [metrics EXCEPT !.total_checked = @ + 1, !.total_dropped = @ + 1]

\* FingerprintMetrics.record_decision (the per-source counts are not kept)
record_decision(metrics, dropped, kept_linked, match_type) ==
    LET m1 == [metrics EXCEPT !.total_checked = @ + 1]
    IN  IF dropped
        THEN LET m2 == [m1 EXCEPT !.total_dropped = @ + 1]
             IN  IF match_type = "simhash" THEN [m2 EXCEPT !.simhash_hits = @ + 1]
                 ELSE IF match_type = "minhash" THEN [m2 EXCEPT !.minhash_hits = @ + 1]
                 ELSE IF match_type = "chunk_hash" THEN [m2 EXCEPT !.chunk_hash_hits = @ + 1]
                 ELSE m2
        ELSE IF kept_linked THEN [m1 EXCEPT !.total_kept_linked = @ + 1]
             ELSE [m1 EXCEPT !.total_kept = @ + 1]

\* FingerprintMetrics.record_cross_dataset_collision
record_cross_dataset_collision(metrics) ==
    [metrics EXCEPT !.cross_dataset_collisions = @ + 1]

\* SimHashStore.query on _cache, a dict kept as its entries in insertion order
SimHashStore_query_within(cache, sig, max_hamming) ==
    Flatten([k \in 1..Len(cache) |->
                IF hamming_distance(sig, cache[k].sig) <= max_hamming
                THEN cache[k].recs ELSE <<>>])

\* SimHashStore.query of the manager's store (max_hamming at its default)
SimHashStore_query(cache, sig) == SimHashStore_query_within(cache, sig, MaxHamming)

\* a variant in which the record of a later document replaces those of the signature
SimCacheAppend_replaces(cache, rec) ==
    IF \E k \in 1..Len(cache) : cache[k].sig = rec.value
    THEN [k \in 1..Len(cache) |->
            IF cache[k].sig = rec.value
            THEN [cache[k] EXCEPT !.recs = <<rec>>] ELSE cache[k]]
    ELSE Append(cache, [sig |-> rec.value, recs |-> <<rec>>])

\* _cache.setdefault(sig, []).append(record)
SimCacheAppend(cache, rec) ==
    IF \E k \in 1..Len(cache) : cache[k].sig = rec.value
    THEN [k \in 1..Len(cache) |->
            IF cache[k].sig = rec.value
            THEN [cache[k] EXCEPT !.recs = Append(@, rec)] ELSE cache[k]]
    ELSE Append(cache, [sig |-> rec.value, recs |-> <<rec>>])

\* ChunkHashStore.query
ChunkHashStore_query(cache, h) == IF h \in DOMAIN cache THEN cache[h] ELSE <<>>

\* _cache.setdefault(h, []).append(record)
ChunkCacheAppend(cache, rec) ==
    IF rec.value \in DOMAIN cache
    THEN [cache EXCEPT ![rec.value] = Append(@, rec)]
    ELSE cache @@ (rec.value :> <<rec>>)

RECURSIVE SortedKeys(_)
SortedKeys(K) ==
    IF K = {} THEN <<>> ELSE <<MinOf(K)>> \o SortedKeys(K \ {MinOf(K)})

\* MinHashStore.query: the LSH hits that are in _key_to_record (in key order)
MinHashStore_query(mh, sig) ==
    LET hits == {e.key : e \in {x \in mh.lsh : LshCollide(sig, x.sig)}}
        keys == SortedKeys(hits \cap DOMAIN mh.key_to_record)
    IN  [k \in 1..Len(keys) |-> mh.key_to_record[keys[k]]]

SourcesOf(recs) == [k \in 1..Len(recs) |-> recs[k].source]

DocIdsOf(recs) == [k \in 1..Len(recs) |-> recs[k].doc_id]

simhash_drop_on_match == TRUE

minhash_drop_on_match == TRUE

chunk_drop_duplicate_chunks_only == TRUE

\* a variant that lets the incoming document win every match
_should_keep_incoming_always(cfg, incoming_source, existing_sources) == TRUE

\* GlobalFingerprintManager._should_keep_incoming
_should_keep_incoming(cfg, incoming_source, existing_sources) ==
    IF cfg.document_type_priority # <<>> /\ DOMAIN cfg.source_to_document_type # {}
    THEN should_keep_incoming_by_type_and_source(incoming_source, existing_sources,
             cfg.document_type_priority, cfg.source_to_document_type, cfg.source_priority)
    ELSE IF cfg.source_priority # <<>>
         THEN should_keep_incoming_by_priority(
                  incoming_source, existing_sources, cfg.source_priority)
         ELSE FALSE

DedupDecision(action, match_type, existing_doc_ids, existing_sources, duplicate_chunk_ids, reason) ==
    [action |-> action, match_type |-> match_type,
     existing_doc_ids |-> existing_doc_ids, existing_sources |-> existing_sources,
     duplicate_chunk_ids |-> duplicate_chunk_ids, reason |-> reason]

\* the verdict of the ChunkHash part of query_and_decide
ChunkVerdict(m, gcfg, match_type, ids, srcs, duplicate_chunk_ids) ==
    IF gcfg.chunk /\ duplicate_chunk_ids # <<>> /\ chunk_drop_duplicate_chunks_only
    THEN [decision |-> DedupDecision("KEEP_LINK", "chunk_hash", ids, srcs,
                           duplicate_chunk_ids, "Partial chunk overlap; keep with link"),
          metrics |-> [m.metrics EXCEPT
                          !.chunk_hash_hits = @ + Len(duplicate_chunk_ids)],
          queried |-> <<>>]
    ELSE [decision |-> DedupDecision(
                           IF duplicate_chunk_ids = <<>> THEN "KEEP" ELSE "KEEP_LINK",
                           match_type, ids, srcs, duplicate_chunk_ids, ""),
          metrics |-> record_decision(m.metrics, FALSE, duplicate_chunk_ids # <<>>,
                          match_type),
          queried |-> <<>>]

\* the result res of the rest of query_and_decide, after the store queries stores
\* (one entry per call of a store's query, in order)
Queried(stores, res) == [res EXCEPT !.queried = stores \o @]

\* the positions (in order) of the chunks whose hash the chunk store holds
FoundChunks(m, chunks) ==
    SelectSeq([k \in 1..Len(chunks) |-> k],
        LAMBDA k : Len(ChunkHashStore_query(m.chunk, chunks[k].h)) > 0)

\* the loop of query_and_decide over the chunks: duplicate_chunk_ids and the
\* sources appended to existing_sources
ChunkMatches(m, gcfg, match_type, ids, srcs, chunks, dup_idx) ==
    ChunkVerdict(m, gcfg, match_type, ids,
        srcs \o Flatten([k \in 1..Len(dup_idx) |->
                    SourcesOf(ChunkHashStore_query(m.chunk, chunks[dup_idx[k]].h))]),
        [k \in 1..Len(dup_idx) |-> chunks[dup_idx[k]].chunk_id])

\* the ChunkHash part of query_and_decide on the chunks of the text
QueryChunksOf(m, gcfg, match_type, ids, srcs, chunks) ==
    Queried([k \in 1..Len(chunks) |-> "chunk_hash"],
        ChunkMatches(m, gcfg, match_type, ids, srcs, chunks, FoundChunks(m, chunks)))

\* the ChunkHash part of query_and_decide, after SimHash and MinHash gave no verdict
QueryChunks(m, gcfg, source, text, match_type, ids, srcs) ==
    QueryChunksOf(m, gcfg, match_type, ids, srcs,
        IF gcfg.chunk THEN compute_chunk_hashes(text, ChunkSize, ChunkOverlap) ELSE <<>>)

\* the metrics after a DROP: record_decision, and the cross-dataset collision
DropMetrics(metrics, kind, srcs) ==
    IF Cardinality(SeqRange(srcs)) > 1
    THEN record_cross_dataset_collision(record_decision(metrics, TRUE, FALSE, kind))
    ELSE record_decision(metrics, TRUE, FALSE, kind)

\* the verdict of a SimHash or MinHash match under drop-on-match
MatchVerdict(m, gcfg, source, kind, ids, srcs) ==
    IF _should_keep_incoming(gcfg, source, srcs)
    THEN [decision |-> DedupDecision("KEEP", kind, ids, srcs, <<>>,
                           IF kind = "simhash"
                           THEN "SimHash match but incoming has higher priority; keep"
                           ELSE "MinHash match but incoming has higher priority; keep"),
          metrics |-> record_decision(m.metrics, FALSE, FALSE, kind),
          queried |-> <<>>]
    ELSE [decision |-> DedupDecision("DROP", kind, ids, srcs, <<>>,
                           IF kind = "simhash" THEN "SimHash match (coarse duplicate)"
                           ELSE "MinHash near-duplicate"),
          metrics |-> DropMetrics(m.metrics, kind, srcs),
          queried |-> <<>>]

\* query_and_decide after the MinHash query returned mh_recs
AfterMinHashQuery(m, gcfg, source, text, sim_recs, mh_recs) ==
    IF mh_recs # <<>> /\ minhash_drop_on_match
    THEN MatchVerdict(m, gcfg, source, "minhash",
             DocIdsOf(sim_recs) \o DocIdsOf(mh_recs),
             SourcesOf(sim_recs) \o SourcesOf(mh_recs))
    ELSE QueryChunks(m, gcfg, source, text,
             IF mh_recs # <<>> THEN "minhash"
             ELSE IF sim_recs # <<>> THEN "simhash" ELSE "",
             DocIdsOf(sim_recs) \o DocIdsOf(mh_recs),
             SourcesOf(sim_recs) \o SourcesOf(mh_recs))

\* a variant that goes on to the MinHash query after the verdict of a SimHash match
AfterSimHashQuery_queries_on(m, gcfg, source, text, sim_recs) ==
    Queried(IF gcfg.minhash THEN <<"minhash">> ELSE <<>>,
        IF sim_recs # <<>> /\ simhash_drop_on_match
        THEN MatchVerdict(m, gcfg, source, "simhash", DocIdsOf(sim_recs),
                 SourcesOf(sim_recs))
        ELSE AfterMinHashQuery(m, gcfg, source, text, sim_recs,
                 IF gcfg.minhash
                 THEN MinHashStore_query(m.minhash, _minhash_signature(text, MinHashNgram))
                 ELSE <<>>))

\* query_and_decide after the SimHash query returned sim_recs
AfterSimHashQuery(m, gcfg, source, text, sim_recs) ==
    IF sim_recs # <<>> /\ simhash_drop_on_match
    THEN MatchVerdict(m, gcfg, source, "simhash", DocIdsOf(sim_recs),
             SourcesOf(sim_recs))
    ELSE Queried(IF gcfg.minhash THEN <<"minhash">> ELSE <<>>,
             AfterMinHashQuery(m, gcfg, source, text, sim_recs,
                 IF gcfg.minhash
                 THEN MinHashStore_query(m.minhash, _minhash_signature(text, MinHashNgram))
                 ELSE <<>>))

\* GlobalFingerprintManager.query_and_decide: [decision, metrics]
query_and_decide(m, gcfg, seed, source, text) ==
    Queried(IF gcfg.simhash THEN <<"simhash">> ELSE <<>>,
        AfterSimHashQuery(m, gcfg, source, text,
            IF gcfg.simhash
            THEN SimHashStore_query(m.simhash, compute_simhash(seed, text))
            ELSE <<>>))

\* the stores of a manager on an empty root path
NewManager ==
    [simhash |-> <<>>,
     minhash |-> [lsh |-> {}, key_to_record |-> EmptyFn, next_key |-> 0],
     chunk |-> EmptyFn,
     metrics |-> NewMetrics]

\* the files under the root path: one file per SimHash signature, one per chunk
\* hash, and the MinHash document list; unparsable names the files whose bytes
\* json.loads rejects (zero-length or cut short)
NewDisk ==
    [simhash |-> EmptyFn, chunk |-> EmptyFn,
     minhash_docs |-> [present |-> FALSE, docs |-> EmptyFn],
     unparsable |-> [simhash |-> {}, chunk |-> {}, minhash_docs |-> FALSE]]

\* SimHashStore.add: append to the cache, then _persist_one (file named by the signature)
SimHashStore_add(m, disk, rec) ==
    [mgr |-> [m EXCEPT !.simhash = SimCacheAppend(@, rec)],
     disk |-> [disk EXCEPT !.simhash =
                  IF rec.value \in DOMAIN @ THEN [@ EXCEPT ![rec.value] = rec]
                  ELSE @ @@ (rec.value :> rec),
                           !.unparsable.simhash = @ \ {rec.value}]]

\* MinHashStore.add: lsh.insert, _key_to_record[key] (value None), _persist_docs
MinHashStore_add(m, disk, rec) ==
    LET key == m.minhash.next_key
        stored == [rec EXCEPT !.value = "None"]
        k2r == m.minhash.key_to_record @@ (key :> stored)
    IN  [mgr |-> [m EXCEPT !.minhash =
                     [lsh |-> @.lsh \cup {[key |-> key, sig |-> rec.value]},
                      key_to_record |-> k2r, next_key |-> key + 1]],
         disk |-> [disk EXCEPT !.minhash_docs = [present |-> TRUE, docs |-> k2r],
                               !.unparsable.minhash_docs = FALSE]]

\* ChunkHashStore.add: append to the cache, then _persist_one (file named by the hash)
ChunkHashStore_add(m, disk, rec) ==
    [mgr |-> [m EXCEPT !.chunk = ChunkCacheAppend(@, rec)],
     disk |-> [disk EXCEPT !.chunk =
                  IF rec.value \in DOMAIN @ THEN [@ EXCEPT ![rec.value] = rec]
                  ELSE @ @@ (rec.value :> rec),
                           !.unparsable.chunk = @ \ {rec.value}]]

RECURSIVE AddChunks(_, _, _, _, _)
\* the loop of add_fingerprints over compute_chunk_hashes
AddChunks(st, chunks, k, doc_id, source) ==
    IF k > Len(chunks) THEN st
    ELSE AddChunks(
             ChunkHashStore_add(st.mgr, st.disk,
                 FingerprintRecord("chunk_hash", chunks[k].h, doc_id, source,
                     chunks[k].chunk_id)),
             chunks, k + 1, doc_id, source)

\* add_fingerprints, SimHash part
AddSimHash(st, gcfg, seed, doc_id, source, text) ==
    IF gcfg.simhash
    THEN SimHashStore_add(st.mgr, st.disk,
             FingerprintRecord("simhash", compute_simhash(seed, text), doc_id, source,
                 "None"))
    ELSE st

\* add_fingerprints, MinHash part
AddMinHash(st, gcfg, doc_id, source, text) ==
    IF gcfg.minhash
    THEN MinHashStore_add(st.mgr, st.disk,
             FingerprintRecord("minhash", _minhash_signature(text, MinHashNgram),
                 doc_id, source, "None"))
    ELSE st

\* add_fingerprints, ChunkHash part
AddChunkHashes(st, gcfg, doc_id, source, text) ==
    IF gcfg.chunk
    THEN AddChunks(st, compute_chunk_hashes(text, ChunkSize, ChunkOverlap), 1, doc_id,
             source)
    ELSE st

\* the stores in memory as in st, the files as in disk
MemoryOnly(st, disk) == [mgr |-> st.mgr, disk |-> disk]

\* a variant that adds to the caches and writes no file
add_fingerprints_unpersisted(m, disk, gcfg, seed, doc_id, source, text) ==
    MemoryOnly(
        AddChunkHashes(
            AddMinHash(
                AddSimHash([mgr |-> m, disk |-> disk], gcfg, seed, doc_id, source, text),
                gcfg, doc_id, source, text),
            gcfg, doc_id, source, text),
        disk)

\* GlobalFingerprintManager.add_fingerprints: [mgr, disk] (flush persists the
\* MinHash document list again and is a no-op for the other two stores)
add_fingerprints(m, disk, gcfg, seed, doc_id, source, text) ==
    AddChunkHashes(
        AddMinHash(
            AddSimHash([mgr |-> m, disk |-> disk], gcfg, seed, doc_id, source, text),
            gcfg, doc_id, source, text),
        gcfg, doc_id, source, text)

\* SimHashStore._load: one cache entry per signature file; a file that does not
\* parse is skipped (except Exception: continue)
SimHashStore_load(disk) ==
    LET sigs == SetToSeq(DOMAIN disk.simhash \ disk.unparsable.simhash)
    IN  [k \in 1..Len(sigs) |-> [sig |-> sigs[k], recs |-> <<disk.simhash[sigs[k]]>>]]

\* a variant of _load whose loop ends at the first file that does not parse, the
\* unparsable files being listed first
ChunkHashStore_load_stops(disk) ==
    IF disk.unparsable.chunk # {} THEN EmptyFn
    ELSE [h \in DOMAIN disk.chunk |-> <<disk.chunk[h]>>]

\* ChunkHashStore._load: one cache entry per chunk-hash file; a file that does
\* not parse is skipped
ChunkHashStore_load(disk) ==
    [h \in DOMAIN disk.chunk \ disk.unparsable.chunk |-> <<disk.chunk[h]>>]

\* MinHashStore._load: the document list and _next_key; the LSH starts empty; a
\* list that does not parse leaves the store as constructed (except Exception: pass)
MinHashStore_load(disk) ==
    IF disk.minhash_docs.present /\ ~disk.unparsable.minhash_docs
    THEN LET docs == disk.minhash_docs.docs
         IN  [lsh |-> {}, key_to_record |-> docs,
              next_key |-> (IF DOMAIN docs = {} THEN 0
                            ELSE CHOOSE k \in DOMAIN docs : \A j \in DOMAIN docs : j <= k)
                           + 1]
    ELSE [lsh |-> {}, key_to_record |-> EmptyFn, next_key |-> 0]

\* GlobalFingerprintManager.__init__: the stores the manager holds under the
\* configuration; the MinHash store is constructed only when the import of
\* datasketch.MinHash succeeded (if minhash_enabled and MinHash is not None)
StoresOn(config, has_datasketch) ==
    [config EXCEPT !.minhash = @ /\ has_datasketch]

\* GlobalFingerprintManager.__init__ on a root path holding `disk`
LoadManager(cfg, disk) ==
    [simhash |-> IF cfg.simhash THEN SimHashStore_load(disk) ELSE <<>>,
     minhash |-> IF cfg.minhash THEN MinHashStore_load(disk)
                 ELSE [lsh |-> {}, key_to_record |-> EmptyFn, next_key |-> 0],
     chunk |-> IF cfg.chunk THEN ChunkHashStore_load(disk) ELSE EmptyFn,
     metrics |-> NewMetrics]

\* build._raw_to_doc: doc_id is the digest of the first 512 characters
DocId(text) == sha256_bytes(Slice(text, 0, DocIdPrefixLen))

\* the result of GlobalDedupStage.apply for a kept document: st are the stores
\* after add_fingerprints; calls are the manager's methods the stage invoked
KeptResult(q, st) ==
    [accepted |-> TRUE, reason_code |-> "", decision |-> q.decision, added |-> TRUE,
     calls |-> <<"query_and_decide", "add_fingerprints">>, queried |-> q.queried,
     mgr |-> st.mgr, disk |-> st.disk]

\* a variant that misses the return of the DROP branch and goes on to add_fingerprints
AfterDecision_adds_on_drop(m, disk, gcfg, seed, source, text, q) ==
    [KeptResult(q,
         add_fingerprints([m EXCEPT !.metrics = q.metrics], disk, gcfg, seed,
             DocId(text), source, text))
     EXCEPT !.accepted = q.decision.action # "DROP",
            !.reason_code = IF q.decision.action = "DROP" THEN "DUP_GLOBAL" ELSE ""]

\* GlobalDedupStage.apply after query_and_decide returned q
AfterDecision(m, disk, gcfg, seed, source, text, q) ==
    IF q.decision.action = "DROP"
    THEN [accepted |-> FALSE, reason_code |-> "DUP_GLOBAL", decision |-> q.decision,
          added |-> FALSE, calls |-> <<"query_and_decide">>, queried |-> q.queried,
          mgr |-> [m EXCEPT !.metrics = q.metrics], disk |-> disk]
    ELSE KeptResult(q,
             add_fingerprints([m EXCEPT !.metrics = q.metrics], disk, gcfg, seed,
                 DocId(text), source, text))

\* a variant whose query runs on stores that hold no earlier document
GlobalDedupStage_apply_stale(m, disk, gcfg, seed, source, text) ==
    AfterDecision(m, disk, gcfg, seed, source, text,
        query_and_decide([NewManager EXCEPT !.metrics = m.metrics], gcfg, seed,
            source, text))

\* GlobalDedupStage.apply: the Decision, the manager's verdict, and the stores after
GlobalDedupStage_apply(m, disk, gcfg, seed, source, text) ==
    AfterDecision(m, disk, gcfg, seed, source, text,
        query_and_decide(m, gcfg, seed, source, text))

(***************************************************************************)
(* Stages and the stage chain of build_local                               *)
(***************************************************************************)
\* pipeline.context.Decision
Decision(accepted, stage, reason_code, reason_detail) ==
    [accepted |-> accepted, stage |-> stage, reason_code |-> reason_code,
     reason_detail |-> reason_detail]

\* the license policy of the run
AllowedLicenses == {"CC0"}

DisallowedLicenses == {}

\* LicenseGate.apply (after _raw_to_doc the license is never None)
LicenseGate_apply(d) ==
    IF d.license \in DisallowedLicenses
    THEN Decision(FALSE, "license_gate", "LICENSE_DISALLOWED", d.license)
    ELSE IF AllowedLicenses # {} /\ d.license \notin AllowedLicenses
         THEN Decision(FALSE, "license_gate", "LICENSE_NOT_ALLOWED", d.license)
         ELSE Decision(TRUE, "license_gate", "", "")

\* QualityGate.apply with the default (unbounded) entropy range
QualityGate_apply(d) ==
    IF Len(d.text) < MinChars
    THEN Decision(FALSE, "quality_gate", "TOO_SHORT", ToString(Len(d.text)))
    ELSE Decision(TRUE, "quality_gate", "", "")

\* the stages of the run, in configured order
StageOrder == <<"license_gate", "global_dedup", "quality_gate">>

\* the outcome of a stage that returned the Decision dec
Returned(dec, verdict, m, disk) ==
    [raised |-> FALSE, message |-> "", decision |-> dec, verdict |-> verdict,
     mgr |-> m, disk |-> disk]

\* the outcome of the global_dedup stage from the result r of its apply
DedupReturned(r) ==
    Returned(Decision(r.accepted, "global_dedup", r.reason_code, r.decision.reason),
        r.decision.action, r.mgr, r.disk)

\* st.apply(doc) for the stage of that name: its Decision, or the exception it
\* raises on this document, the dedup verdict, and the fingerprint stores after
StageApply(name, d, m, disk, gcfg, seed) ==
    IF d.raises = name
    THEN [raised |-> TRUE, message |-> "stage failure",
          decision |-> Decision(FALSE, name, "", ""), verdict |-> "",
          mgr |-> m, disk |-> disk]
    ELSE IF name = "license_gate" THEN Returned(LicenseGate_apply(d), "", m, disk)
    ELSE IF name = "global_dedup"
    THEN DedupReturned(GlobalDedupStage_apply(m, disk, gcfg, seed, d.source, d.text))
    ELSE Returned(QualityGate_apply(d), "", m, disk)

\* the rejection record of a document that stage st rejected with Decision dec
RejectionRecord(n, d, dec) ==
    [idx |-> n, doc_id |-> DocId(d.text), source |-> d.source, stage |-> dec.stage,
     decision |-> "reject",
     reason_code |-> IF dec.reason_code = "" THEN "REJECT" ELSE dec.reason_code,
     reason_detail |-> dec.reason_detail]

\* a variant that records the failure as a rejection by the raising stage
RuntimeErrorRecord_as_stage(n, d, message) ==
    [idx |-> n, doc_id |-> <<"raw_id", n>>, source |-> d.source, stage |-> d.raises,
     decision |-> "reject", reason_code |-> "REJECT", reason_detail |-> ""]

\* the rejection record of the driver's exception handler
RuntimeErrorRecord(n, d, message) ==
    [idx |-> n, doc_id |-> <<"raw_id", n>>, source |-> d.source,
     stage |-> "runtime_error", decision |-> "reject",
     reason_code |-> "RUNTIME_ERROR", reason_detail |-> message]

\* a variant without the break
ChainStops_never(dec) == FALSE

\* `if not d.accepted: ... break` of the stage loop
ChainStops(dec) == ~dec.accepted

\* the result of the stage loop before its first stage
NoStages(m, disk) ==
    [applied |-> <<>>, decisions |-> <<>>, raised |-> FALSE, message |-> "",
     verdict |-> "", records |-> <<>>, mgr |-> m, disk |-> disk]

\* the result of the stage loop extended by stage k's result r (no exception)
StageDone(k, n, d, acc, r) ==
    [acc EXCEPT
        !.applied = Append(@, StageOrder[k]),
        !.decisions = Append(@, r.decision),
        !.verdict = IF r.verdict # "" THEN r.verdict ELSE @,
        !.records = IF r.decision.accepted THEN @
                    ELSE Append(@, RejectionRecord(n, d, r.decision)),
        !.mgr = r.mgr, !.disk = r.disk]

\* the result of the stage loop when stage k raised
StageRaised(k, acc, r) ==
    [acc EXCEPT !.applied = Append(@, StageOrder[k]),
                !.raised = TRUE, !.message = r.message]

RECURSIVE RunStages(_, _, _, _, _, _)
RECURSIVE RunStagesAfter(_, _, _, _, _, _, _)
\* the stage loop of build_local from stage k on: the stages invoked, their
\* Decisions, the rejection records appended, the exception if one was raised,
\* the dedup verdict, and the fingerprint stores after
RunStages(k, n, d, gcfg, seed, acc) ==
    IF k > Len(StageOrder) THEN acc
    ELSE RunStagesAfter(k, n, d, gcfg, seed, acc,
             StageApply(StageOrder[k], d, acc.mgr, acc.disk, gcfg, seed))

\* the rest of the stage loop after stage k returned or raised r
RunStagesAfter(k, n, d, gcfg, seed, acc, r) ==
    IF r.raised THEN StageRaised(k, acc, r)
    ELSE IF ChainStops(r.decision) THEN StageDone(k, n, d, acc, r)
    ELSE RunStages(k + 1, n, d, gcfg, seed, StageDone(k, n, d, acc, r))

\* some Decision of the loop was a rejection (accepted = False at line 381)
Rejected(res) == \E k \in 1..Len(res.decisions) : ~res.decisions[k].accepted

(***************************************************************************)
(* State                                                                   *)
(***************************************************************************)
VARIABLES
    cfg,         \* the global_fingerprints configuration of the run
    hash_seed,   \* the running process's string-hash seed
    datasketch,  \* whether the process could import the datasketch package
    mgr,         \* the manager's in-memory stores and metrics
    fp_disk,     \* the fingerprint files under the root path
    committed,   \* history: the documents whose fingerprints were added
    last,        \* history: the last stage application
    nops,        \* history: stage applications and restarts so far
    run,         \* shard_docs, log_every and ckpt_every of cfg["run"]
    stream,      \* the source's raw documents, as far as they have been read
    pc,          \* the driver's position in build_local
    i,           \* the loop index of the document last pulled (processed - 1 before)
    shard,       \* the in-memory shard buffer
    shard_idx,   \* the index of the next shard file
    rejs,        \* the in-memory rejection buffer
    state,       \* the checkpoint state's entry for the source, in memory
    total_written_docs,
    total_rejected_docs,
    shard_files, \* the shard files on disk, by shard index
    rejections,  \* the lines of rejections.jsonl on disk
    ckpt_file,   \* the checkpoint file on disk
    routed,      \* history: what this process did with each document it pulled
    accepted_docs, \* history: the documents that every stage accepted
    kept_docs,   \* history: the documents with a KEEP or KEEP_LINK verdict
    crashes,     \* history: process crashes so far
    faults,      \* history: writer failures so far
    ckpt_files,  \* the checkpoint directory: the files at self.path and at tmp
    save_pc,     \* the position of the process in CheckpointStore.save, or "down"
    ckpt_state,  \* the checkpoint state dict in the process's memory
    now,         \* the clock read by save, in ms
    durable,     \* history: the state of the last save that returned
    ck_last,     \* history: the last operation on the checkpoint store
    records,     \* the raw records src.stream() yields in this process
    processed,   \* processed_docs of the source in the loaded checkpoint state
    it,          \* the iterator over the stream: the records it has yielded
    skipped_count,
    loop_pc,     \* the position in the resume loops of build_local
    passed,      \* history: the (i, raw) pairs the document loop has received
    pcall,       \* the last call of a function of the priority resolver
    simhash_store, \* a SimHashStore: max_hamming, _cache and its files
    sim_query,   \* the last query of the SimHashStore and what it returned
    ct_text,     \* chunk_text: the normalized text
    ct_size,     \* chunk_text: chunk_size
    ct_overlap,  \* chunk_text: overlap
    ct_start,    \* chunk_text: start
    ct_chunks,   \* chunk_text: chunks
    ct_pc,       \* chunk_text: "loop" in the while loop, "return" after it
    cfg_sources,     \* multi-source run: the names of cfg["sources"], in configured order
    stream_len,      \* multi-source run: the number of records each source's stream holds
    source_configs,  \* source_configs, the order in which the sources are processed
    sources_state,   \* state["sources"] of the running process
    ckpt_sources,    \* the sources map of the checkpoint file
    src_pc,          \* "start", "source" (before a source), "loop", "done"
    src_pos,         \* the position of the current source in source_configs
    locals_i,        \* the function-local i: <<>> while unbound, <<n>> once the loop bound it
    s_processed,     \* processed, the processed_docs loaded for the current source
    s_shard_idx,     \* shard_idx of the current source
    s_shard,         \* len(shard) of the current source
    s_file_stats,    \* file_stats of the current source (one input file)
    s_it,            \* the records the iterator of the current source has not yielded
    s_skipped,       \* skipped_count of the current source
    doc_count,       \* doc_count of the current source
    finished,        \* history: the sources whose final checkpoint this process saved
    restarts         \* history: the crashes of the multi-source run so far

dedup_vars == <<cfg, hash_seed, datasketch, mgr, fp_disk>>

harness_vars == <<committed, last, nops>>

process_vars ==
    <<pc, i, shard, shard_idx, rejs, state, total_written_docs, total_rejected_docs>>

disk_vars == <<shard_files, rejections, ckpt_file>>

history_vars == <<routed, accepted_docs, kept_docs, crashes, faults>>

driver_vars == <<run, stream, process_vars, disk_vars, history_vars>>

checkpoint_vars == <<ckpt_files, save_pc, ckpt_state, now, durable, ck_last>>

resume_vars == <<records, processed, it, skipped_count, loop_pc, passed>>

sim_vars == <<simhash_store, sim_query>>

chunk_vars == <<ct_text, ct_size, ct_overlap, ct_start, ct_chunks, ct_pc>>

sources_vars ==
    <<cfg_sources, stream_len, source_configs, sources_state, ckpt_sources, src_pc, src_pos,
      locals_i, s_processed, s_shard_idx, s_shard, s_file_stats, s_it, s_skipped,
      doc_count, finished, restarts>>

vars ==
    <<dedup_vars, harness_vars, driver_vars, checkpoint_vars, resume_vars, pcall, sim_vars,
      chunk_vars, sources_vars>>

Sources == {"A", "B", "C"}

Seeds == {0, 1}

T_bb == <<"b", "b">>
T_aabbcc == <<"a", "a", "b", "b", "c", "c">>
T_aabbcd == <<"a", "a", "b", "b", "c", "d">>
T_ccddaa == <<"c", "c", "d", "d", "a", "a">>
T_a_b == <<"a", " ", " ", "b">>

Texts == {T_bb, T_aabbcc, T_aabbcd, T_a_b}

NoPriority ==
    [source_priority |-> <<>>, document_type_priority |-> <<>>,
     source_to_document_type |-> EmptyFn]

Stores(simhash, minhash, chunk) ==
    [simhash |-> simhash, minhash |-> minhash, chunk |-> chunk]

BooksWeb == ("A" :> "books") @@ ("B" :> "web")

BooksWebWeb == BooksWeb @@ ("C" :> "web")

\* global_fingerprints with nothing but enabled: true
DefaultConfig == Stores(TRUE, TRUE, TRUE) @@ NoPriority

\* the configurations explored: the default, the priority variants, and the
\* store selections of global_fingerprints (MinHash off also stands for a
\* missing datasketch)
Configs ==
    { DefaultConfig,
      Stores(TRUE, TRUE, TRUE) @@ [NoPriority EXCEPT !.source_priority = <<"A", "B">>],
      Stores(TRUE, FALSE, TRUE) @@
          [NoPriority EXCEPT !.document_type_priority = <<"books", "web">>,
                             !.source_to_document_type = BooksWebWeb,
                             !.source_priority = <<"C", "B">>],
      Stores(FALSE, TRUE, TRUE) @@
          [NoPriority EXCEPT !.document_type_priority = <<"books", "web">>,
                             !.source_to_document_type = BooksWeb],
      Stores(FALSE, FALSE, TRUE) @@ NoPriority }

NoDecision == DedupDecision("NONE", "", <<>>, <<>>, <<>>, "")

NoApply ==
    [op |-> "none", source |-> "", text |-> <<>>, seed |-> 0, decision |-> NoDecision,
     accepted |-> FALSE, reason_code |-> "", added |-> FALSE, calls |-> <<>>,
     queried |-> <<>>, redo |-> FALSE,
     pre_metrics |-> NewMetrics, pre_chunks |-> {}, pre_committed |-> {}]

(***************************************************************************)
(* CheckpointStore: the state dict, its JSON file, load and save          *)
(***************************************************************************)
\* a dict with no keys; also stands for no state at all
NoState == EmptyFn

NoFile == [exists |-> FALSE, content |-> <<>>]

\* self.path, and tmp = self.path + ".tmp"
path == "run1.json"

\* a variant in which save writes the checkpoint file itself
tmp_is_path == "run1.json"

tmp == "run1.json.tmp"

\* self.run_id
run_id == "run1"

\* the checkpoint file of another run in the same checkpoint directory
other == "run0.json"

\* the files of the checkpoint directory that end in .json
JsonFiles == {path, other}

\* the characters of a file's name before .json, and of a checkpoint id
NameChars(name) ==
    CASE name = "run1.json" -> <<"r", "u", "n", "1">>
      [] name = "run0.json" -> <<"r", "u", "n", "0">>
      [] name = "run0" -> <<"r", "u", "n", "0">>
      [] name = "run" -> <<"r", "u", "n">>
      [] name = "old" -> <<"o", "l", "d">>
      [] OTHER -> <<>>

ResumeModes == {"auto", "beginning", "checkpoint", "ignore"}

\* the checkpoint ids a run is started with: another run's id, a prefix of run ids,
\* an id no file has, and none ("")
CheckpointIds == {"run0", "run", "old", ""}

\* a variant of _find_checkpoint that finds no file
_find_checkpoint_nothing(files, checkpoint_id, glob_first) == "None"

\* _find_checkpoint: the file {checkpoint_id}.json, else the first file that
\* glob lists for {checkpoint_id}*.json (glob_first when it is among them), else None
_find_checkpoint(files, checkpoint_id, glob_first) ==
    IF \E f \in JsonFiles : files[f].exists /\ NameChars(f) = NameChars(checkpoint_id)
    THEN CHOOSE f \in JsonFiles :
             files[f].exists /\ NameChars(f) = NameChars(checkpoint_id)
    ELSE IF \E f \in JsonFiles :
                files[f].exists /\ StartsWith(NameChars(f), NameChars(checkpoint_id))
    THEN IF /\ files[glob_first].exists
            /\ StartsWith(NameChars(glob_first), NameChars(checkpoint_id))
         THEN glob_first
         ELSE CHOOSE f \in JsonFiles :
                  files[f].exists /\ StartsWith(NameChars(f), NameChars(checkpoint_id))
    ELSE "None"

\* the keys of the state dict that hold numbers, and those that hold strings
NumKeys == <<"updated_at_ms">>

StrKeys == <<"run_id", "resume_mode", "checkpoint_id">>

\* decimal text of the numbers 0..9, and its parse
Numerals == <<"0", "1", "2", "3", "4", "5", "6", "7", "8", "9">>

Numeral(n) == Numerals[n + 1]

ParseInt(str) == (CHOOSE k \in 1..Len(Numerals) : Numerals[k] = str) - 1

\* json.dump of the scalar entries of the dict st, each as a line of the file
ScalarLines(st) ==
    [k \in 1..Len(SelectSeq(StrKeys, LAMBDA key : key \in DOMAIN st)) |->
        LET key == SelectSeq(StrKeys, LAMBDA x : x \in DOMAIN st)[k]
        IN  <<"str", key, st[key]>>]
    \o [k \in 1..Len(SelectSeq(NumKeys, LAMBDA key : key \in DOMAIN st)) |->
        LET key == SelectSeq(NumKeys, LAMBDA x : x \in DOMAIN st)[k]
        IN  <<"num", key, Numeral(st[key])>>]

\* json.dump of state["sources"]: one line per source
SourceLines(sources) ==
    LET names == SetToSeq(DOMAIN sources)
    IN  [k \in 1..Len(names) |->
            <<"src", names[k], Numeral(sources[names[k]].processed_docs),
              Numeral(sources[names[k]].shard_idx)>>]

\* json.dump(state, f, indent=2): the lines written to the file, in order
json_dump(st) ==
    <<<<"{">>>> \o ScalarLines(st) \o <<<<"sources", "{">>>>
    \o SourceLines(st["sources"]) \o <<<<"}">>, <<"}">>>>

\* json.load accepts the content: the object and its sources object are closed
json_valid(c) ==
    /\ Len(c) >= 4
    /\ c[1] = <<"{">> /\ c[Len(c)] = <<"}">> /\ c[Len(c) - 1] = <<"}">>
    /\ \E j \in 2..(Len(c) - 2) :
           /\ c[j] = <<"sources", "{">>
           /\ \A k \in 2..(j - 1) : c[k][1] \in {"str", "num"}
           /\ \A k \in (j + 1)..(Len(c) - 2) : c[k][1] = "src"

\* json.load of a content it accepts: the dict
json_load(c) ==
    LET scalars == {k \in 1..Len(c) : c[k][1] \in {"str", "num"}}
        srcs == {k \in 1..Len(c) : c[k][1] = "src"}
    IN  [key \in {c[k][2] : k \in scalars} \cup {"sources"} |->
            IF key = "sources"
            THEN [name \in {c[k][2] : k \in srcs} |->
                     LET t == c[CHOOSE k \in srcs : c[k][2] = name]
                     IN  [processed_docs |-> ParseInt(t[3]), shard_idx |-> ParseInt(t[4])]]
            ELSE LET t == c[CHOOSE k \in scalars : c[k][2] = key]
                 IN  IF t[1] = "num" THEN ParseInt(t[3]) ELSE t[3]]

\* state[key] = value
SetItem(st, key, value) == (key :> value) @@ st

\* {"sources": {}, "resume_mode": resume_mode}
FreshState(resume_mode) ==
    SetItem(SetItem(NoState, "sources", EmptyFn), "resume_mode", resume_mode)

\* a variant of LoadLive that returns the file's dict as it was saved
LoadLive_as_saved(files, resume_mode) ==
    IF files[path].exists
    THEN IF json_valid(files[path].content)
         THEN [raised |-> FALSE, state |-> json_load(files[path].content)]
         ELSE [raised |-> TRUE, state |-> NoState]
    ELSE [raised |-> FALSE, state |-> FreshState(resume_mode)]

\* the end of load: the live checkpoint if the file exists, else a fresh state
LoadLive(files, resume_mode) ==
    IF files[path].exists
    THEN IF json_valid(files[path].content)
         THEN [raised |-> FALSE,
               state |-> SetItem(json_load(files[path].content), "resume_mode",
                             resume_mode)]
         ELSE [raised |-> TRUE, state |-> NoState]
    ELSE [raised |-> FALSE, state |-> FreshState(resume_mode)]

\* load of the snapshot at checkpoint_path
LoadSnapshot(files, resume_mode, checkpoint_id, checkpoint_path) ==
    IF json_valid(files[checkpoint_path].content)
    THEN [raised |-> FALSE,
          state |-> SetItem(SetItem(json_load(files[checkpoint_path].content),
                                "resume_mode", resume_mode),
                        "checkpoint_id", checkpoint_id)]
    ELSE [raised |-> TRUE, state |-> NoState]

\* CheckpointStore.load(resume_mode, checkpoint_id): the state, or json.load raises
CheckpointStore_load(files, resume_mode, checkpoint_id, glob_first) ==
    IF resume_mode = "beginning" \/ resume_mode = "ignore"
    THEN [raised |-> FALSE, state |-> FreshState(resume_mode)]
    ELSE IF /\ resume_mode = "checkpoint" /\ checkpoint_id # ""
            /\ _find_checkpoint(files, checkpoint_id, glob_first) # "None"
    THEN LoadSnapshot(files, resume_mode, checkpoint_id,
             _find_checkpoint(files, checkpoint_id, glob_first))
    ELSE LoadLive(files, resume_mode)

\* the first lines of save: updated_at_ms, and run_id when the state has none
save_stamp(st, t) ==
    IF "run_id" \in DOMAIN st
    THEN SetItem(st, "updated_at_ms", t)
    ELSE SetItem(SetItem(st, "updated_at_ms", t), "run_id", run_id)

\* os.replace(src, dst)
os_replace(files, src, dst) ==
    IF src = dst THEN files
    ELSE [files EXCEPT ![dst] = files[src], ![src] = NoFile]

\* no process runs and the checkpoint directory is empty
CheckpointIdle ==
    /\ ckpt_files = [f \in {path, tmp, other} |-> NoFile]
    /\ save_pc = "down"
    /\ ckpt_state = NoState
    /\ now = 0
    /\ durable = NoState
    /\ ck_last = [op |-> "none", mode |-> "", raised |-> FALSE]

\* the volatile part of a multi-source run before its process starts
SourcesDown ==
    /\ source_configs = <<>>
    /\ sources_state = EmptyFn
    /\ src_pc = "start"
    /\ src_pos = 0
    /\ locals_i = <<>>
    /\ s_processed = 0
    /\ s_shard_idx = 0
    /\ s_shard = 0
    /\ s_file_stats = [processed |-> 0, written |-> 0, rejected |-> 0]
    /\ s_it = 0
    /\ s_skipped = 0
    /\ doc_count = 0
    /\ finished = {}

\* no multi-source run
SourcesIdle ==
    /\ cfg_sources = <<>>
    /\ stream_len = EmptyFn
    /\ ckpt_sources = EmptyFn
    /\ restarts = 0
    /\ SourcesDown

\* chunk_text is not running
ChunkIdle ==
    /\ ct_text = <<>>
    /\ ct_size = ChunkSize
    /\ ct_overlap = ChunkOverlap
    /\ ct_start = 0
    /\ ct_chunks = <<>>
    /\ ct_pc = "return"

\* no SimHash store under test
SimIdle ==
    /\ simhash_store = [max_hamming |-> MaxHamming, mgr |-> [simhash |-> <<>>],
                        disk |-> NewDisk]
    /\ sim_query = [op |-> "none"]

\* no function of the priority resolver has been called
NoCall == [fn |-> "none"]

\* no source is being read
ResumeIdle ==
    /\ records = <<>>
    /\ processed = 0
    /\ it = 0
    /\ skipped_count = 0
    /\ loop_pc = "skip"
    /\ passed = <<>>

(***************************************************************************)
(* The dedup stage over a manager: stage applications and restarts         *)
(***************************************************************************)
\* the counters of the source's input file before any document (the empty
\* file_stats dictionary of line 321)
NoFileStats == [processed |-> 0, written |-> 0, rejected |-> 0]

\* no checkpoint file: the source's entry reads as its defaults
NoCheckpoint ==
    [exists |-> FALSE, processed_docs |-> 0, shard_idx |-> 0, file_stats |-> NoFileStats]

\* the driver before its process starts, on an empty output directory
DriverIdle(r) ==
    /\ run = r
    /\ stream = <<>>
    /\ pc = "start"
    /\ i = -1
    /\ shard = <<>>
    /\ shard_idx = 0
    /\ rejs = <<>>
    /\ state = [processed_docs |-> 0, shard_idx |-> 0, file_stats |-> NoFileStats]
    /\ total_written_docs = 0
    /\ total_rejected_docs = 0
    /\ shard_files = EmptyFn
    /\ rejections = <<>>
    /\ ckpt_file = NoCheckpoint
    /\ routed = EmptyFn
    /\ accepted_docs = {}
    /\ kept_docs = {}
    /\ crashes = 0
    /\ faults = 0

\* run.shard_docs, run.log_every_docs and run.checkpoint_every_docs at their defaults
\* scaled down (checkpoint_every_docs defaults to shard_docs)
DefaultRun == [shard_docs |-> MaxShardDocs, log_every |-> 1, ckpt_every |-> MaxShardDocs]

InitDedup ==
    /\ cfg \in Configs
    /\ hash_seed \in Seeds
    /\ datasketch = TRUE
    /\ mgr = NewManager
    /\ fp_disk = NewDisk
    /\ committed = {}
    /\ last = NoApply
    /\ nops = 0
    /\ DriverIdle(DefaultRun)
    /\ CheckpointIdle
    /\ ResumeIdle
    /\ pcall = NoCall
    /\ SimIdle
    /\ ChunkIdle
    /\ SourcesIdle

\* one document through GlobalDedupStage.apply; redo marks the document that was
\* in flight when the previous process ended, handed to the stage again
Apply(source, text) ==
    /\ nops < MaxOps
    /\ \E r \in {GlobalDedupStage_apply(mgr, fp_disk, StoresOn(cfg, datasketch), hash_seed, source, text)} :
           /\ mgr' = r.mgr
           /\ fp_disk' = r.disk
           /\ committed' =
                  IF r.added
                  THEN committed \cup {[source |-> source, text |-> text,
                                        action |-> r.decision.action, live |-> TRUE]}
                  ELSE committed
           /\ last' = [op |-> "apply", source |-> source, text |-> text,
                       seed |-> hash_seed, decision |-> r.decision,
                       accepted |-> r.accepted, reason_code |-> r.reason_code,
                       added |-> r.added, calls |-> r.calls, queried |-> r.queried,
                       redo |-> /\ last.op = "restart" /\ last.added
                                /\ last.source = source /\ last.text = text,
                       pre_metrics |-> mgr.metrics, pre_chunks |-> DOMAIN mgr.chunk,
                       pre_committed |-> committed]
    /\ nops' = nops + 1
    /\ UNCHANGED <<sources_vars, chunk_vars, sim_vars, pcall, resume_vars, cfg, datasketch, hash_seed, driver_vars, checkpoint_vars>>

\* the process ends and a new one builds its manager on the same root path
Restart ==
    /\ last.op = "apply"
    /\ nops < MaxOps
    /\ hash_seed' \in Seeds
    /\ mgr' = LoadManager(StoresOn(cfg, datasketch), fp_disk)
    /\ committed' = {[c EXCEPT !.live = FALSE] : c \in committed}
    /\ last' = [last EXCEPT !.op = "restart"]
    /\ nops' = nops + 1
    /\ UNCHANGED <<sources_vars, chunk_vars, sim_vars, pcall, resume_vars, cfg, datasketch, fp_disk, driver_vars, checkpoint_vars>>

NextDedup ==
    \/ \E source \in Sources, text \in Texts : Apply(source, text)
    \/ Restart

SpecDedup == InitDedup /\ [][NextDedup]_vars

(***************************************************************************)
(* The manager's interface: query_and_decide and add_fingerprints in any    *)
(* order, and restarts on the same root path                                *)
(***************************************************************************)
\* query_and_decide(doc_id, source, language, text)
Query(source, text) ==
    /\ nops < MaxOps
    /\ \E q \in {query_and_decide(mgr, StoresOn(cfg, datasketch), hash_seed, source, text)} :
           /\ mgr' = [mgr EXCEPT !.metrics = q.metrics]
           /\ last' = [NoApply EXCEPT !.op = "query", !.source = source, !.text = text,
                                      !.seed = hash_seed, !.decision = q.decision,
                                      !.calls = <<"query_and_decide">>,
                                      !.queried = q.queried,
                                      !.pre_metrics = mgr.metrics,
                                      !.pre_chunks = DOMAIN mgr.chunk,
                                      !.pre_committed = committed]
    /\ nops' = nops + 1
    /\ UNCHANGED <<sources_vars, chunk_vars, sim_vars, pcall, resume_vars, cfg, datasketch, hash_seed, fp_disk, committed, driver_vars, checkpoint_vars>>

\* add_fingerprints(doc_id, source, language, text) with the document's doc_id
Add(source, text) ==
    /\ nops < MaxOps
    /\ \E st \in {add_fingerprints(mgr, fp_disk, StoresOn(cfg, datasketch), hash_seed, DocId(text), source,
                      text)} :
           /\ mgr' = st.mgr
           /\ fp_disk' = st.disk
    /\ committed' = committed \cup {[source |-> source, text |-> text,
                                     action |-> "ADD", live |-> TRUE]}
    /\ last' = [NoApply EXCEPT !.op = "add", !.source = source, !.text = text,
                               !.seed = hash_seed, !.added = TRUE,
                               !.calls = <<"add_fingerprints">>,
                               !.pre_metrics = mgr.metrics,
                               !.pre_chunks = DOMAIN mgr.chunk,
                               !.pre_committed = committed]
    /\ nops' = nops + 1
    /\ UNCHANGED <<sources_vars, chunk_vars, sim_vars, pcall, resume_vars, cfg, datasketch, hash_seed, driver_vars, checkpoint_vars>>

\* the process ends and a new manager is constructed on the same root path
Reload ==
    /\ nops < MaxOps
    /\ committed # {}
    /\ hash_seed' \in Seeds
    /\ mgr' = LoadManager(StoresOn(cfg, datasketch), fp_disk)
    /\ committed' = {[c EXCEPT !.live = FALSE] : c \in committed}
    /\ last' = [last EXCEPT !.op = "reload"]
    /\ nops' = nops + 1
    /\ UNCHANGED <<sources_vars, chunk_vars, sim_vars, pcall, resume_vars, cfg, datasketch, fp_disk, driver_vars, checkpoint_vars>>

NextManager ==
    \/ \E source \in Sources, text \in Texts : Query(source, text)
    \/ \E source \in Sources, text \in Texts : Add(source, text)
    \/ Reload

SpecManager == InitDedup /\ [][NextManager]_vars

\* a fingerprint file is left zero-length or cut short while no process runs on it
\* (the stores write their files in place, without a temporary file)
DamageSimHash ==
    /\ nops < MaxOps
    /\ \E sig \in DOMAIN fp_disk.simhash \ fp_disk.unparsable.simhash :
           fp_disk' = [fp_disk EXCEPT !.unparsable.simhash = @ \cup {sig}]
    /\ last' = [last EXCEPT !.op = "damage"]
    /\ nops' = nops + 1
    /\ UNCHANGED <<sources_vars, chunk_vars, sim_vars, pcall, resume_vars, cfg, datasketch, hash_seed, mgr, committed, driver_vars, checkpoint_vars>>

DamageChunkHash ==
    /\ nops < MaxOps
    /\ \E h \in DOMAIN fp_disk.chunk \ fp_disk.unparsable.chunk :
           fp_disk' = [fp_disk EXCEPT !.unparsable.chunk = @ \cup {h}]
    /\ last' = [last EXCEPT !.op = "damage"]
    /\ nops' = nops + 1
    /\ UNCHANGED <<sources_vars, chunk_vars, sim_vars, pcall, resume_vars, cfg, datasketch, hash_seed, mgr, committed, driver_vars, checkpoint_vars>>

DamageMinHash ==
    /\ nops < MaxOps
    /\ fp_disk.minhash_docs.present /\ ~fp_disk.unparsable.minhash_docs
    /\ fp_disk' = [fp_disk EXCEPT !.unparsable.minhash_docs = TRUE]
    /\ last' = [last EXCEPT !.op = "damage"]
    /\ nops' = nops + 1
    /\ UNCHANGED <<sources_vars, chunk_vars, sim_vars, pcall, resume_vars, cfg, datasketch, hash_seed, mgr, committed, driver_vars, checkpoint_vars>>

NextManagerFaults ==
    \/ NextManager
    \/ DamageSimHash
    \/ DamageChunkHash
    \/ DamageMinHash

SpecManagerFaults == InitDedup /\ [][NextManagerFaults]_vars

\* the manager in a process of an installation with or without the optional
\* datasketch package (manager.py 6-9: a failed import leaves MinHash = None)
InitManagerEnv ==
    /\ cfg \in Configs
    /\ hash_seed \in Seeds
    /\ datasketch \in BOOLEAN
    /\ mgr = NewManager
    /\ fp_disk = NewDisk
    /\ committed = {}
    /\ last = NoApply
    /\ nops = 0
    /\ DriverIdle(DefaultRun)
    /\ CheckpointIdle
    /\ ResumeIdle
    /\ pcall = NoCall
    /\ SimIdle
    /\ ChunkIdle
    /\ SourcesIdle

SpecManagerEnv == InitManagerEnv /\ [][NextManager]_vars

(***************************************************************************)
(* build_local over one source, with crashes and resume (resume mode auto)  *)
(***************************************************************************)
\* the raw documents a source may yield: text, license, and the stage (if any)
\* that raises an exception on the document
RawDocs ==
    { [source |-> "A", text |-> T_aabbcc, license |-> "CC0", raises |-> ""],
      [source |-> "A", text |-> T_ccddaa, license |-> "CC0", raises |-> ""],
      [source |-> "A", text |-> T_aabbcc, license |-> "Proprietary", raises |-> ""],
      [source |-> "A", text |-> T_bb, license |-> "CC0", raises |-> ""],
      [source |-> "A", text |-> T_ccddaa, license |-> "CC0", raises |-> "quality_gate"] }

Runs ==
    [shard_docs : 1..MaxShardDocs, log_every : 1..MaxLogEvery,
     ckpt_every : 1..MaxCkptEvery]

Init ==
    /\ cfg = DefaultConfig
    /\ hash_seed = 0
    /\ datasketch = TRUE
    /\ mgr = NewManager
    /\ fp_disk = NewDisk
    /\ committed = {}
    /\ last = NoApply
    /\ nops = 0
    /\ \E r \in Runs : DriverIdle(r)
    /\ CheckpointIdle
    /\ ResumeIdle
    /\ pcall = NoCall
    /\ SimIdle
    /\ ChunkIdle
    /\ SourcesIdle

\* ckpt.save(state): the temporary file replaces the checkpoint file
CheckpointStore_save(st) ==
    [exists |-> TRUE, processed_docs |-> st.processed_docs, shard_idx |-> st.shard_idx,
     file_stats |-> st.file_stats]

\* file_stats[source_file] of the running process, the source having one input
\* file: processed counts the documents that entered the loop body (line 351),
\* written those appended to the shard buffer (line 409), rejected those a stage
\* rejected (line 377); the exception handler (lines 472-486) touches none
file_stats ==
    [processed |-> Cardinality(DOMAIN routed),
     written |-> Cardinality({n \in DOMAIN routed : routed[n].appended = 1}),
     rejected |-> Cardinality({n \in DOMAIN routed : Rejected(routed[n])})]

\* append_jsonl(rejections.jsonl, rejs)
append_jsonl(lines, recs) == lines \o recs

\* a process starts: the stages are built (the manager loads its stores), the
\* checkpoint is loaded, saved when it is new, and the stream is skipped up to
\* processed_docs
Start ==
    /\ pc = "start"
    /\ hash_seed' \in Seeds
    /\ mgr' = LoadManager(StoresOn(cfg, datasketch), fp_disk)
    /\ state' = [processed_docs |-> ckpt_file.processed_docs,
                 shard_idx |-> ckpt_file.shard_idx,
                 file_stats |-> ckpt_file.file_stats]
    /\ ckpt_file' = IF ckpt_file.exists THEN ckpt_file ELSE CheckpointStore_save(state')
    /\ i' = ckpt_file.processed_docs - 1
    /\ shard_idx' = ckpt_file.shard_idx
    /\ shard' = <<>>
    /\ rejs' = <<>>
    /\ total_written_docs' = 0
    /\ total_rejected_docs' = 0
    /\ routed' = EmptyFn
    /\ pc' = "next"
    /\ UNCHANGED <<sources_vars, chunk_vars, sim_vars, pcall, resume_vars, cfg, datasketch, fp_disk, harness_vars, checkpoint_vars, run, stream, shard_files, rejections,
                   accepted_docs, kept_docs, crashes, faults>>

\* where the loop body goes after a rejection (lines 385-405)
AfterRejection(n) ==
    IF (n + 1) % run.log_every = 0 THEN "rej_log"
    ELSE IF (n + 1) % run.ckpt_every = 0 THEN "rej_ckpt"
    ELSE "next"

\* where the loop body goes after shard.append (lines 412-470)
AfterAppend(n, buffered, pending) ==
    IF buffered >= run.shard_docs THEN "write"
    ELSE IF (n + 1) % run.log_every = 0 /\ pending # <<>> THEN "log"
    ELSE "next"

\* one iteration of the document loop up to the routing of the document: the
\* document is pulled, goes through the stage loop, and is appended to the shard
\* buffer, or its rejection record to the rejection buffer; an exception of a
\* stage ends in the handler
Document(d) ==
    /\ pc = "next"
    /\ i + 1 < MaxDocs
    /\ IF i + 1 < Len(stream)
       THEN d = stream[i + 2] /\ UNCHANGED stream
       ELSE stream' = Append(stream, d)
    /\ \E res \in {RunStages(1, i + 1, d, StoresOn(cfg, datasketch), hash_seed, NoStages(mgr, fp_disk))} :
         LET n == i + 1
             all_accepted == ~res.raised /\ ~Rejected(res)
             recs == IF res.raised
                     THEN Append(res.records, RuntimeErrorRecord(n, d, res.message))
                     ELSE res.records
         IN  /\ i' = n
             /\ mgr' = res.mgr
             /\ fp_disk' = res.disk
             /\ rejs' = rejs \o recs
             /\ total_rejected_docs' = total_rejected_docs + Len(recs)
             /\ shard' = IF all_accepted
                         THEN Append(shard, [idx |-> n, doc_id |-> DocId(d.text)])
                         ELSE shard
             /\ total_written_docs' =
                    IF all_accepted THEN total_written_docs + 1 ELSE total_written_docs
             /\ pc' = IF res.raised THEN "next"
                      ELSE IF Rejected(res) THEN AfterRejection(n)
                      ELSE AfterAppend(n, Len(shard'), rejs')
             /\ routed' = routed @@
                    (n :> [applied |-> res.applied, decisions |-> res.decisions,
                           raised |-> res.raised, message |-> res.message,
                           appended |-> IF all_accepted THEN 1 ELSE 0,
                           records |-> recs])
             /\ accepted_docs' = IF all_accepted THEN accepted_docs \cup {n}
                                 ELSE accepted_docs
             /\ kept_docs' =
                    IF res.verdict \in {"KEEP", "KEEP_LINK"}
                    THEN kept_docs \cup {[idx |-> n, source |-> d.source,
                                          text |-> d.text, seed |-> hash_seed]}
                    ELSE kept_docs
    /\ UNCHANGED <<sources_vars, chunk_vars, sim_vars, pcall, resume_vars, cfg, datasketch, hash_seed, harness_vars, checkpoint_vars, run, shard_idx, state, disk_vars,
                   crashes, faults>>

\* lines 385-397: the rejection buffer goes to rejections.jsonl
RejLog ==
    /\ pc = "rej_log"
    /\ rejections' = append_jsonl(rejections, rejs)
    /\ rejs' = <<>>
    /\ pc' = IF (i + 1) % run.ckpt_every = 0 THEN "rej_ckpt" ELSE "next"
    /\ UNCHANGED <<sources_vars, chunk_vars, sim_vars, pcall, resume_vars, dedup_vars, harness_vars, checkpoint_vars, run, stream, i, shard, shard_idx, state,
                   total_written_docs, total_rejected_docs, shard_files, ckpt_file,
                   history_vars>>

\* lines 398-405: the checkpoint of the rejection path
RejCkpt ==
    /\ pc = "rej_ckpt"
    /\ state' = [processed_docs |-> i + 1, shard_idx |-> shard_idx,
                 file_stats |-> file_stats]
    /\ ckpt_file' = CheckpointStore_save(state')
    /\ pc' = "next"
    /\ UNCHANGED <<sources_vars, chunk_vars, sim_vars, pcall, resume_vars, dedup_vars, harness_vars, checkpoint_vars, run, stream, i, shard, shard_idx, rejs,
                   total_written_docs, total_rejected_docs, shard_files, rejections,
                   history_vars>>

\* lines 426-433: the corpus and metadata writers write the shard
WriteShard ==
    /\ pc = "write"
    /\ shard_files' = [k \in DOMAIN shard_files \cup {shard_idx} |->
                          IF k = shard_idx THEN shard ELSE shard_files[k]]
    /\ shard' = <<>>
    /\ shard_idx' = shard_idx + 1
    /\ pc' = IF rejs # <<>> THEN "shard_log" ELSE "shard_ckpt"
    /\ UNCHANGED <<sources_vars, chunk_vars, sim_vars, pcall, resume_vars, dedup_vars, harness_vars, checkpoint_vars, run, stream, i, rejs, state,
                   total_written_docs, total_rejected_docs, rejections, ckpt_file,
                   history_vars>>

\* lines 426-427 and 472-486: write_shard raises and the handler rejects the
\* document that was appended last
WriteShardFails ==
    /\ pc = "write"
    /\ faults < MaxWriterFaults
    /\ faults' = faults + 1
    /\ \E rec \in {RuntimeErrorRecord(i, stream[i + 1], "write failure")} :
           /\ rejs' = Append(rejs, rec)
           /\ routed' = [routed EXCEPT ![i].records = Append(@, rec)]
    /\ total_rejected_docs' = total_rejected_docs + 1
    /\ pc' = "next"
    /\ UNCHANGED <<sources_vars, chunk_vars, sim_vars, pcall, resume_vars, dedup_vars, harness_vars, checkpoint_vars, run, stream, i, shard, shard_idx, state,
                   total_written_docs, disk_vars, accepted_docs, kept_docs, crashes>>

\* lines 435-447: the rejection buffer goes to rejections.jsonl after a shard
ShardLog ==
    /\ pc = "shard_log"
    /\ rejections' = append_jsonl(rejections, rejs)
    /\ rejs' = <<>>
    /\ pc' = "shard_ckpt"
    /\ UNCHANGED <<sources_vars, chunk_vars, sim_vars, pcall, resume_vars, dedup_vars, harness_vars, checkpoint_vars, run, stream, i, shard, shard_idx, state,
                   total_written_docs, total_rejected_docs, shard_files, ckpt_file,
                   history_vars>>

\* lines 449-454: the checkpoint after a shard (the periodic flush at 457-470
\* then finds the rejection buffer empty)
ShardCkpt ==
    /\ pc = "shard_ckpt"
    /\ state' = [processed_docs |-> i + 1, shard_idx |-> shard_idx,
                 file_stats |-> file_stats]
    /\ ckpt_file' = CheckpointStore_save(state')
    /\ pc' = "next"
    /\ UNCHANGED <<sources_vars, chunk_vars, sim_vars, pcall, resume_vars, dedup_vars, harness_vars, checkpoint_vars, run, stream, i, shard, shard_idx, rejs,
                   total_written_docs, total_rejected_docs, shard_files, rejections,
                   history_vars>>

\* lines 457-470: the periodic flush of the rejection buffer
Log ==
    /\ pc = "log"
    /\ rejections' = append_jsonl(rejections, rejs)
    /\ rejs' = <<>>
    /\ pc' = "next"
    /\ UNCHANGED <<sources_vars, chunk_vars, sim_vars, pcall, resume_vars, dedup_vars, harness_vars, checkpoint_vars, run, stream, i, shard, shard_idx, state,
                   total_written_docs, total_rejected_docs, shard_files, ckpt_file,
                   history_vars>>

\* the stream is exhausted: the loop ends
EndOfStream ==
    /\ pc = "next"
    /\ i + 1 >= MaxDocs
    /\ pc' = IF shard # <<>> THEN "final_shard"
             ELSE IF rejs # <<>> THEN "final_log" ELSE "final_ckpt"
    /\ UNCHANGED <<sources_vars, chunk_vars, sim_vars, pcall, resume_vars, dedup_vars, harness_vars, checkpoint_vars, run, stream, i, shard, shard_idx, rejs,
                   state, total_written_docs, total_rejected_docs, disk_vars,
                   history_vars>>

\* lines 488-509: the remaining shard is written
FinalShard ==
    /\ pc = "final_shard"
    /\ shard_files' = [k \in DOMAIN shard_files \cup {shard_idx} |->
                          IF k = shard_idx THEN shard ELSE shard_files[k]]
    /\ shard' = <<>>
    /\ shard_idx' = shard_idx + 1
    /\ pc' = IF rejs # <<>> THEN "final_log" ELSE "final_ckpt"
    /\ UNCHANGED <<sources_vars, chunk_vars, sim_vars, pcall, resume_vars, dedup_vars, harness_vars, checkpoint_vars, run, stream, i, rejs, state,
                   total_written_docs, total_rejected_docs, rejections, ckpt_file,
                   history_vars>>

\* lines 511-523: the final flush of the rejection buffer
FinalLog ==
    /\ pc = "final_log"
    /\ rejections' = append_jsonl(rejections, rejs)
    /\ rejs' = <<>>
    /\ pc' = "final_ckpt"
    /\ UNCHANGED <<sources_vars, chunk_vars, sim_vars, pcall, resume_vars, dedup_vars, harness_vars, checkpoint_vars, run, stream, i, shard, shard_idx, state,
                   total_written_docs, total_rejected_docs, shard_files, ckpt_file,
                   history_vars>>

\* lines 526-538: the final checkpoint of the source
FinalCkpt ==
    /\ pc = "final_ckpt"
    /\ state' = [processed_docs |-> i + 1, shard_idx |-> shard_idx,
                 file_stats |-> file_stats]
    /\ ckpt_file' = CheckpointStore_save(state')
    /\ pc' = "done"
    /\ UNCHANGED <<sources_vars, chunk_vars, sim_vars, pcall, resume_vars, dedup_vars, harness_vars, checkpoint_vars, run, stream, i, shard, shard_idx, rejs,
                   total_written_docs, total_rejected_docs, shard_files, rejections,
                   history_vars>>

\* the process dies between two steps: only the files survive; the next process
\* starts with resume mode auto
Crash ==
    /\ pc \notin {"start", "done"}
    /\ crashes < MaxCrashes
    /\ crashes' = crashes + 1
    /\ pc' = "start"
    /\ i' = -1
    /\ shard' = <<>>
    /\ shard_idx' = 0
    /\ rejs' = <<>>
    /\ state' = [processed_docs |-> 0, shard_idx |-> 0, file_stats |-> NoFileStats]
    /\ total_written_docs' = 0
    /\ total_rejected_docs' = 0
    /\ mgr' = NewManager
    /\ routed' = EmptyFn
    /\ UNCHANGED <<sources_vars, chunk_vars, sim_vars, pcall, resume_vars, cfg, datasketch, hash_seed, fp_disk, harness_vars, checkpoint_vars, run, stream, disk_vars,
                   accepted_docs, kept_docs, faults>>

\* the steps of the driver itself
Step ==
    \/ Start
    \/ \E d \in RawDocs : Document(d)
    \/ RejLog
    \/ RejCkpt
    \/ WriteShard
    \/ WriteShardFails
    \/ ShardLog
    \/ ShardCkpt
    \/ Log
    \/ EndOfStream
    \/ FinalShard
    \/ FinalLog
    \/ FinalCkpt

Next == Step \/ Crash

Spec == Init /\ [][Next]_vars

\* the driver's position: its place in the loop body and the loop index
position == <<pc, i>>

Positions ==
    {"start", "next", "rej_log", "rej_ckpt", "write", "shard_log", "shard_ckpt", "log",
     "final_shard", "final_log", "final_ckpt", "done"}

\* the process moves on: Step is enabled exactly while pc # "done", and a step of
\* Next is one of Step exactly when it changes the position without going back
\* to "start" (a crash does)
Scheduled ==
    /\ pc # "done"
    /\ \E p \in Positions \ {"start"}, n \in -1..MaxDocs : pc' = p /\ i' = n

\* a running process takes its next step: the loop body is sequential code with
\* no blocking call, so a process that does not crash goes on until the run is over
FairSpec == Init /\ [][Next]_vars /\ WF_position(Scheduled)

(***************************************************************************)
(* A process on the checkpoint store: load, progress, save step by step,   *)
(* and the death of the process at any point                                *)
(***************************************************************************)
InitCheckpoint ==
    /\ cfg = DefaultConfig
    /\ hash_seed = 0
    /\ datasketch = TRUE
    /\ mgr = NewManager
    /\ fp_disk = NewDisk
    /\ committed = {}
    /\ last = NoApply
    /\ nops = 0
    /\ DriverIdle(DefaultRun)
    /\ CheckpointIdle
    /\ ResumeIdle
    /\ pcall = NoCall
    /\ SimIdle
    /\ ChunkIdle
    /\ SourcesIdle

\* ckpt.load(resume_mode, checkpoint_id), by a new process or by the running one
\* between saves; an exception of json.load ends the process
Load(resume_mode, checkpoint_id, glob_first) ==
    /\ save_pc \in {"down", "idle"}
    /\ resume_mode # "checkpoint" => checkpoint_id = "" /\ glob_first = path
    /\ \E r \in {CheckpointStore_load(ckpt_files, resume_mode, checkpoint_id,
                      glob_first)} :
           /\ ckpt_state' = r.state
           /\ save_pc' = IF r.raised THEN "down" ELSE "idle"
           /\ ck_last' = [op |-> "load", mode |-> resume_mode, raised |-> r.raised,
                          after |-> ck_last.op, checkpoint_id |-> checkpoint_id]
    /\ UNCHANGED <<sources_vars, chunk_vars, sim_vars, pcall, resume_vars, ckpt_files, now, durable, dedup_vars, harness_vars, driver_vars>>

\* state["sources"][spec.name] = {"processed_docs": n, "shard_idx": shard_idx},
\* with the shard index of a run that accepts every document
SetProgress(n) ==
    /\ save_pc = "idle"
    /\ ckpt_state' = SetItem(ckpt_state, "sources",
                         SetItem(ckpt_state["sources"], "A",
                             [processed_docs |-> n, shard_idx |-> n \div MaxShardDocs]))
    /\ ckpt_state' # ckpt_state
    /\ ck_last' = [op |-> "progress", mode |-> "", raised |-> FALSE]
    /\ UNCHANGED <<sources_vars, chunk_vars, sim_vars, pcall, resume_vars, ckpt_files, save_pc, now, durable, dedup_vars, harness_vars,
                   driver_vars>>

\* save(state) begins: the clock is read, updated_at_ms and run_id are set
SaveStamp ==
    /\ save_pc = "idle"
    /\ now < MaxSaves
    /\ now' = now + 1
    /\ ckpt_state' = save_stamp(ckpt_state, now')
    /\ save_pc' = "stamped"
    /\ ck_last' = [op |-> "saving", mode |-> "", raised |-> FALSE]
    /\ UNCHANGED <<sources_vars, chunk_vars, sim_vars, pcall, resume_vars, ckpt_files, durable, dedup_vars, harness_vars, driver_vars>>

\* open(tmp, "w"): the file is created, or truncated
SaveOpen ==
    /\ save_pc = "stamped"
    /\ ckpt_files' = [ckpt_files EXCEPT ![tmp] = [exists |-> TRUE, content |-> <<>>]]
    /\ save_pc' = "writing"
    /\ UNCHANGED <<sources_vars, chunk_vars, sim_vars, pcall, resume_vars, ckpt_state, now, durable, ck_last, dedup_vars, harness_vars,
                   driver_vars>>

\* json.dump: the next line of the dump reaches the file
SaveWrite ==
    /\ save_pc = "writing"
    /\ Len(ckpt_files[tmp].content) < Len(json_dump(ckpt_state))
    /\ ckpt_files' = [ckpt_files EXCEPT ![tmp].content =
                         Append(@, json_dump(ckpt_state)[Len(@) + 1])]
    /\ UNCHANGED <<sources_vars, chunk_vars, sim_vars, pcall, resume_vars, save_pc, ckpt_state, now, durable, ck_last, dedup_vars,
                   harness_vars, driver_vars>>

\* the file is complete and closed; os.replace(tmp, self.path); save returns
SaveReplace ==
    /\ save_pc = "writing"
    /\ Len(ckpt_files[tmp].content) = Len(json_dump(ckpt_state))
    /\ ckpt_files' = os_replace(ckpt_files, tmp, path)
    /\ save_pc' = "idle"
    /\ durable' = ckpt_state
    /\ ck_last' = [op |-> "save", mode |-> "", raised |-> FALSE]
    /\ UNCHANGED <<sources_vars, chunk_vars, sim_vars, pcall, resume_vars, ckpt_state, now, dedup_vars, harness_vars, driver_vars>>

\* the run of another store on the same directory saves its state
OtherRunSaves ==
    /\ ~ckpt_files[other].exists
    /\ ckpt_files' = [ckpt_files EXCEPT ![other] =
           [exists |-> TRUE,
            content |-> json_dump(
                SetItem(SetItem(SetItem(FreshState("auto"), "run_id", "run0"),
                            "updated_at_ms", 0),
                    "sources", "A" :> [processed_docs |-> MaxDocs, shard_idx |-> 1]))]]
    /\ UNCHANGED <<sources_vars, chunk_vars, sim_vars, pcall, resume_vars, save_pc, ckpt_state, now, durable, ck_last, dedup_vars,
                   harness_vars, driver_vars>>

\* the process dies: its memory is lost, the files stay as they are
Killed ==
    /\ save_pc # "down"
    /\ save_pc' = "down"
    /\ ckpt_state' = NoState
    /\ ck_last' = [op |-> "killed", mode |-> "", raised |-> FALSE]
    /\ UNCHANGED <<sources_vars, chunk_vars, sim_vars, pcall, resume_vars, ckpt_files, now, durable, dedup_vars, harness_vars, driver_vars>>

NextCheckpoint ==
    \/ \E resume_mode \in ResumeModes, checkpoint_id \in CheckpointIds,
             glob_first \in JsonFiles : Load(resume_mode, checkpoint_id, glob_first)
    \/ \E n \in 1..MaxShardDocs : SetProgress(n)
    \/ SaveStamp
    \/ SaveOpen
    \/ SaveWrite
    \/ SaveReplace
    \/ OtherRunSaves
    \/ Killed

SpecCheckpoint == InitCheckpoint /\ [][NextCheckpoint]_vars

\* the machine goes down after os.replace and before the file's data reached the
\* disk (save does not flush or fsync), or the file is cut by hand: the live file
\* is left with its first n lines, none for n = 0
Truncated(n) ==
    /\ save_pc = "down"
    /\ ckpt_files[path].exists
    /\ json_valid(ckpt_files[path].content)
    /\ ckpt_files' = [ckpt_files EXCEPT ![path].content = SubSeq(@, 1, n)]
    /\ UNCHANGED <<sources_vars, chunk_vars, sim_vars, pcall, resume_vars, save_pc, ckpt_state, now, durable, ck_last, dedup_vars,
                   harness_vars, driver_vars>>

NextCheckpointFaults ==
    \/ NextCheckpoint
    \/ \E n \in {0, 2} : Truncated(n)

SpecCheckpointFaults == InitCheckpoint /\ [][NextCheckpointFaults]_vars

(***************************************************************************)
(* build_local on resume: the skip loop and the document loop over one      *)
(* source's stream, from a loaded processed_docs                            *)
(***************************************************************************)
RawIds == {"r1", "r2"}

\* the streams of at most MaxDocs records
Streams == UNION {[1..n -> RawIds] : n \in 0..MaxDocs}

\* a variant of next() that yields the record without advancing the iterator
iter_next_peeks(recs, pos) ==
    IF pos < Len(recs) THEN [stop |-> FALSE, raw |-> recs[pos + 1], it |-> pos]
    ELSE [stop |-> TRUE, raw |-> "", it |-> pos]

\* next(it) on the iterator of src.stream(): the record at the iterator's position,
\* or StopIteration when the stream is exhausted
iter_next(recs, pos) ==
    IF pos < Len(recs) THEN [stop |-> FALSE, raw |-> recs[pos + 1], it |-> pos + 1]
    ELSE [stop |-> TRUE, raw |-> "", it |-> pos]

\* the state after construction and checkpoint load: a stream and a loaded
\* processed_docs, which may exceed the stream's length
InitResume ==
    /\ cfg = DefaultConfig
    /\ hash_seed = 0
    /\ datasketch = TRUE
    /\ mgr = NewManager
    /\ fp_disk = NewDisk
    /\ committed = {}
    /\ last = NoApply
    /\ nops = 0
    /\ DriverIdle(DefaultRun)
    /\ CheckpointIdle
    /\ records \in Streams
    /\ processed \in 0..(MaxDocs + 1)
    /\ it = 0
    /\ skipped_count = 0
    /\ loop_pc = "skip"
    /\ passed = <<>>
    /\ pcall = NoCall
    /\ SimIdle
    /\ ChunkIdle
    /\ SourcesIdle

\* lines 325-328: one iteration of for _ in range(processed): next(it) succeeds
SkipNext ==
    /\ loop_pc = "skip"
    /\ skipped_count < processed
    /\ \E r \in {iter_next(records, it)} :
           /\ ~r.stop
           /\ it' = r.it
    /\ skipped_count' = skipped_count + 1
    /\ UNCHANGED <<sources_vars, chunk_vars, sim_vars, pcall, records, processed, loop_pc, passed, dedup_vars, harness_vars,
                   driver_vars, checkpoint_vars>>

\* lines 329-331: next(it) raises StopIteration, the skip loop breaks
SkipStopIteration ==
    /\ loop_pc = "skip"
    /\ skipped_count < processed
    /\ \E r \in {iter_next(records, it)} :
           /\ r.stop
           /\ it' = r.it
    /\ loop_pc' = "loop"
    /\ UNCHANGED <<sources_vars, chunk_vars, sim_vars, pcall, records, processed, skipped_count, passed, dedup_vars,
                   harness_vars, driver_vars, checkpoint_vars>>

\* range(processed) is exhausted
SkipDone ==
    /\ loop_pc = "skip"
    /\ skipped_count = processed
    /\ loop_pc' = "loop"
    /\ UNCHANGED <<sources_vars, chunk_vars, sim_vars, pcall, records, processed, it, skipped_count, passed, dedup_vars,
                   harness_vars, driver_vars, checkpoint_vars>>

\* line 336: for i, raw in enumerate(it, start=processed) yields a pair to the
\* loop body, which hands the record to the stage chain
LoopNext ==
    /\ loop_pc = "loop"
    /\ \E r \in {iter_next(records, it)} :
           /\ ~r.stop
           /\ it' = r.it
           /\ passed' = Append(passed, [i |-> processed + Len(passed), raw |-> r.raw,
                                        index |-> it])
    /\ UNCHANGED <<sources_vars, chunk_vars, sim_vars, pcall, records, processed, skipped_count, loop_pc, dedup_vars,
                   harness_vars, driver_vars, checkpoint_vars>>

\* the iterator is exhausted, the document loop ends
LoopEnd ==
    /\ loop_pc = "loop"
    /\ iter_next(records, it).stop
    /\ loop_pc' = "end"
    /\ UNCHANGED <<sources_vars, chunk_vars, sim_vars, pcall, records, processed, it, skipped_count, passed, dedup_vars,
                   harness_vars, driver_vars, checkpoint_vars>>

NextResume ==
    \/ SkipNext
    \/ SkipStopIteration
    \/ SkipDone
    \/ LoopNext
    \/ LoopEnd

SpecResume == InitResume /\ [][NextResume]_vars

(***************************************************************************)
(* The priority resolver's functions on the names and lists of a            *)
(* configuration                                                            *)
(***************************************************************************)
Names == {"A", "B", "C", "books", "web", "Web", " web ", "unknown", ""}

Labels == {"A", "B", "books", "web", " web ", "boo", "ok", "", " "}

RECURSIVE SeqsUpTo(_, _)
\* the sequences over S of length at most n
SeqsUpTo(S, n) ==
    IF n = 0 THEN {<<>>}
    ELSE LET shorter == SeqsUpTo(S, n - 1)
         IN  shorter \cup {Append(q, x) : q \in shorter, x \in S}

SourceOrders == SeqsUpTo({"A", "B", "C", ""}, MaxLabels)

TypeOrders == {<<>>, <<"books", "web">>, <<"web", "books">>, <<"web">>}

TypeMaps == {EmptyFn, BooksWeb, BooksWebWeb, ("A" :> "web") @@ ("B" :> "web")}

InitPriority ==
    /\ cfg = DefaultConfig
    /\ hash_seed = 0
    /\ datasketch = TRUE
    /\ mgr = NewManager
    /\ fp_disk = NewDisk
    /\ committed = {}
    /\ last = NoApply
    /\ nops = 0
    /\ DriverIdle(DefaultRun)
    /\ CheckpointIdle
    /\ ResumeIdle
    /\ pcall = NoCall
    /\ SimIdle
    /\ ChunkIdle
    /\ SourcesIdle

CallDocumentTypePriorityRank(doc_type, type_order) ==
    /\ pcall = NoCall
    /\ pcall' = [fn |-> "document_type_priority_rank", name |-> doc_type,
                 order |-> type_order,
                 result |-> document_type_priority_rank(doc_type, type_order)]
    /\ UNCHANGED <<sources_vars, chunk_vars, sim_vars, dedup_vars, harness_vars, driver_vars, checkpoint_vars, resume_vars>>

CallSourcePriorityRank(source, priority_order) ==
    /\ pcall = NoCall
    /\ pcall' = [fn |-> "source_priority_rank", name |-> source,
                 order |-> priority_order,
                 result |-> source_priority_rank(source, priority_order)]
    /\ UNCHANGED <<sources_vars, chunk_vars, sim_vars, dedup_vars, harness_vars, driver_vars, checkpoint_vars, resume_vars>>

CallKeepByPriority(incoming_source, existing_sources, priority_order) ==
    /\ pcall = NoCall
    /\ pcall' = [fn |-> "should_keep_incoming_by_priority",
                 incoming |-> incoming_source, existing |-> existing_sources,
                 order |-> priority_order,
                 result |-> should_keep_incoming_by_priority(
                                incoming_source, existing_sources, priority_order)]
    /\ UNCHANGED <<sources_vars, chunk_vars, sim_vars, dedup_vars, harness_vars, driver_vars, checkpoint_vars, resume_vars>>

CallKeepByTypeAndSource(incoming_source, existing_sources, type_order, type_map, priority_order) ==
    /\ pcall = NoCall
    /\ pcall' = [fn |-> "should_keep_incoming_by_type_and_source",
                 incoming |-> incoming_source, existing |-> existing_sources,
                 type_order |-> type_order, type_map |-> type_map,
                 order |-> priority_order,
                 result |-> should_keep_incoming_by_type_and_source(
                                incoming_source, existing_sources, type_order, type_map,
                                priority_order)]
    /\ UNCHANGED <<sources_vars, chunk_vars, sim_vars, dedup_vars, harness_vars, driver_vars, checkpoint_vars, resume_vars>>

NextPriority ==
    \/ pcall = NoCall /\ \E n \in Names, o \in SeqsUpTo(Labels, MaxLabels) :
           CallDocumentTypePriorityRank(n, o)
    \/ pcall = NoCall /\ \E n \in Names, o \in SeqsUpTo(Labels, MaxLabels) :
           CallSourcePriorityRank(n, o)
    \/ pcall = NoCall /\ \E s \in Sources \cup {"web"}, e \in SeqsUpTo(Sources \cup {"web"}, MaxExisting),
          o \in SourceOrders :
           CallKeepByPriority(s, e, o)
    \/ pcall = NoCall /\ \E s \in Sources, e \in SeqsUpTo(Sources, MaxExisting), t \in TypeOrders,
          m \in TypeMaps, o \in {<<>>, <<"A", "B">>, <<"C", "B">>, <<"B">>} :
           CallKeepByTypeAndSource(s, e, t, m, o)

SpecPriority == InitPriority /\ [][NextPriority]_vars

(***************************************************************************)
(* One SimHash store with a configured max_hamming: records are added and   *)
(* signatures queried                                                       *)
(***************************************************************************)
\* the signatures explored: the 64-bit values with bits among these positions
SigBits == {0, 1, 63}

Signatures == SUBSET SigBits

InitSimHash ==
    /\ cfg = DefaultConfig
    /\ hash_seed = 0
    /\ datasketch = TRUE
    /\ mgr = NewManager
    /\ fp_disk = NewDisk
    /\ committed = {}
    /\ last = NoApply
    /\ nops = 0
    /\ DriverIdle(DefaultRun)
    /\ CheckpointIdle
    /\ ResumeIdle
    /\ pcall = NoCall
    /\ \E k \in 0..MaxHammingConf :
           simhash_store = [max_hamming |-> k, mgr |-> [simhash |-> <<>>],
                            disk |-> NewDisk]
    /\ sim_query = [op |-> "none"]
    /\ ChunkIdle
    /\ SourcesIdle

\* SimHashStore.add of a record with the signature
SimStoreAdd(sig) ==
    /\ Len(Flatten([k \in 1..Len(simhash_store.mgr.simhash) |->
                        simhash_store.mgr.simhash[k].recs])) < MaxRecords
    /\ \E st \in {SimHashStore_add(simhash_store.mgr, simhash_store.disk,
                        FingerprintRecord("simhash", sig,
                            Cardinality(DOMAIN simhash_store.disk.simhash), "A", "None"))} :
           simhash_store' = [simhash_store EXCEPT !.mgr = st.mgr, !.disk = st.disk]
    /\ sim_query' = [op |-> "add"]
    /\ UNCHANGED <<sources_vars, chunk_vars, pcall, dedup_vars, harness_vars, driver_vars, checkpoint_vars,
                   resume_vars>>

\* SimHashStore.query of the signature
SimStoreQuery(sig) ==
    /\ \E matches \in {SimHashStore_query_within(simhash_store.mgr.simhash, sig,
                             simhash_store.max_hamming)} :
           sim_query' = [op |-> "query", sig |-> sig, found |-> Len(matches) > 0,
                         matches |-> matches]
    /\ UNCHANGED <<sources_vars, chunk_vars, simhash_store, pcall, dedup_vars, harness_vars, driver_vars,
                   checkpoint_vars, resume_vars>>

NextSimHash ==
    \/ \E sig \in Signatures : SimStoreAdd(sig)
    \/ \E sig \in Signatures : SimStoreQuery(sig)

SpecSimHash == InitSimHash /\ [][NextSimHash]_vars

(***************************************************************************)
(* chunk_text step by step, under every configured chunk_size and overlap   *)
(***************************************************************************)
\* the normalized texts: no leading, trailing or doubled whitespace
NormalizedTexts == {t \in SeqsUpTo({"a", "b", " "}, MaxTextLen) : _normalize_chunk(t) = t}

InitChunkText ==
    /\ cfg = DefaultConfig
    /\ hash_seed = 0
    /\ datasketch = TRUE
    /\ mgr = NewManager
    /\ fp_disk = NewDisk
    /\ committed = {}
    /\ last = NoApply
    /\ nops = 0
    /\ DriverIdle(DefaultRun)
    /\ CheckpointIdle
    /\ ResumeIdle
    /\ pcall = NoCall
    /\ SimIdle
    /\ ct_text \in NormalizedTexts
    /\ ct_size \in 1..MaxChunkSize
    /\ ct_overlap \in 0..MaxOverlap
    /\ ct_start = 0
    /\ ct_chunks = <<>>
    /\ ct_pc = "loop"
    /\ SourcesIdle

\* one iteration of while start < len(text)
ChunkIterate ==
    /\ ct_pc = "loop"
    /\ ct_start < Len(ct_text)
    /\ Len(ct_chunks) < MaxChunks
    /\ LET end == ct_start + ct_size
       IN  /\ ct_chunks' = Append(ct_chunks, PySlice(ct_text, ct_start, end))
           /\ ct_start' = IF ct_overlap # 0 THEN end - ct_overlap ELSE end
    /\ UNCHANGED <<sources_vars, ct_text, ct_size, ct_overlap, ct_pc, sim_vars, pcall, dedup_vars,
                   harness_vars, driver_vars, checkpoint_vars, resume_vars>>

\* the loop condition fails: return chunks
ChunkReturn ==
    /\ ct_pc = "loop"
    /\ ct_start >= Len(ct_text)
    /\ ct_pc' = "return"
    /\ UNCHANGED <<sources_vars, ct_text, ct_size, ct_overlap, ct_start, ct_chunks, sim_vars, pcall,
                   dedup_vars, harness_vars, driver_vars, checkpoint_vars, resume_vars>>

NextChunkText == ChunkIterate \/ ChunkReturn

SpecChunkText == InitChunkText /\ [][NextChunkText]_vars

(***************************************************************************)
(* build_local over several sources: the order of the sources, the         *)
(* per-source entry of the checkpoint, and crashes between two documents    *)
(***************************************************************************)
\* the configured source lists: distinct names, one to three sources
SourceLists ==
    {q \in SeqsUpTo(Sources, Cardinality(Sources)) :
         q # <<>> /\ \A j, k \in 1..Len(q) : j # k => q[j] # q[k]}

\* the priority configurations of global_fingerprints explored
SourceConfigs ==
    { DefaultConfig,
      [DefaultConfig EXCEPT !.source_priority = <<"B", "A">>],
      [DefaultConfig EXCEPT !.document_type_priority = <<"web", "books">>,
                            !.source_to_document_type = BooksWebWeb],
      [DefaultConfig EXCEPT !.document_type_priority = <<"web", "books">>,
                            !.source_to_document_type = BooksWebWeb,
                            !.source_priority = <<"A", "C">>],
      [DefaultConfig EXCEPT !.document_type_priority = <<"books">>,
                            !.source_to_document_type = ("B" :> "books")] }

\* the run parameters explored (the rejection log is not part of this model)
SourceRuns == {r \in Runs : r.log_every = 1}

\* a variant of the key that compares the source rank first
_sort_key_source_first(name, conf) ==
    <<IF conf.source_priority # <<>>
      THEN source_priority_rank(name, conf.source_priority) ELSE 0,
      document_type_priority_rank(TypeOf(name, conf.source_to_document_type),
          conf.document_type_priority)>>

\* _sort_key(s): (type_rank, src_rank), src_rank being 0 without a source priority
_sort_key(name, conf) ==
    <<document_type_priority_rank(TypeOf(name, conf.source_to_document_type),
          conf.document_type_priority),
      IF conf.source_priority # <<>>
      THEN source_priority_rank(name, conf.source_priority) ELSE 0>>

\* the comparison of two keys (tuples of integers) by Python's sorted
KeyLess(a, b) ==
    \E k \in 1..Len(a) : a[k] < b[k] /\ \A j \in 1..(k - 1) : a[j] = b[j]

\* the item goes behind every item of the sorted list whose key is not greater
InsertByKey(sorted, item) ==
    LET ahead == {k \in 1..Len(sorted) : ~KeyLess(item.key, sorted[k].key)}
        n == IF ahead = {} THEN 0 ELSE CHOOSE k \in ahead : \A j \in ahead : j <= k
    IN  SubSeq(sorted, 1, n) \o <<item>> \o SubSeq(sorted, n + 1, Len(sorted))

RECURSIVE SortedByKey(_)
\* sorted(items, key=...): a stable sort
SortedByKey(items) ==
    IF items = <<>> THEN <<>>
    ELSE InsertByKey(SortedByKey(SubSeq(items, 1, Len(items) - 1)), items[Len(items)])

\* lines 183-203: the order in which the sources are processed
order_sources(srcs, conf) ==
    IF conf.document_type_priority # <<>> /\ DOMAIN conf.source_to_document_type # {}
    THEN LET items == [k \in 1..Len(srcs) |->
                          [key |-> _sort_key(srcs[k], conf), name |-> srcs[k]]]
             res == SortedByKey(items)
         IN  [k \in 1..Len(res) |-> res[k].name]
    ELSE IF conf.source_priority # <<>>
         THEN LET items == [k \in 1..Len(srcs) |->
                               [key |-> <<source_priority_rank(srcs[k],
                                              conf.source_priority)>>,
                                name |-> srcs[k]]]
                  res == SortedByKey(items)
              IN  [k \in 1..Len(res) |-> res[k].name]
         ELSE srcs

\* a variant of the assignment that writes a map holding this entry alone
SetSourceEntry_alone(srcs, name, entry) == (name :> entry)

\* state["sources"][spec.name] = {...}
SetSourceEntry(srcs, name, entry) ==
    [k \in DOMAIN srcs \cup {name} |-> IF k = name THEN entry ELSE srcs[k]]

\* the entry of a source in the checkpoint
SourceEntry(processed_docs, idx, stats) ==
    [processed_docs |-> processed_docs, shard_idx |-> idx, file_stats |-> stats]

\* the source being processed
CurrentSource == source_configs[src_pos]

InitSources ==
    /\ cfg \in SourceConfigs
    /\ hash_seed = 0
    /\ datasketch = TRUE
    /\ mgr = NewManager
    /\ fp_disk = NewDisk
    /\ committed = {}
    /\ last = NoApply
    /\ nops = 0
    /\ \E r \in SourceRuns : DriverIdle(r)
    /\ CheckpointIdle
    /\ ResumeIdle
    /\ pcall = NoCall
    /\ SimIdle
    /\ ChunkIdle
    /\ cfg_sources \in SourceLists
    /\ stream_len \in [SeqRange(cfg_sources) -> 0..MaxSrcDocs]
    /\ ckpt_sources = EmptyFn
    /\ restarts = 0
    /\ SourcesDown

\* lines 164-203: the checkpoint is loaded (and saved as loaded when it is new)
\* and the sources are ordered
SourcesStart ==
    /\ src_pc = "start"
    /\ sources_state' = ckpt_sources
    /\ source_configs' = order_sources(cfg_sources, cfg)
    /\ src_pos' = 1
    /\ src_pc' = "source"
    /\ UNCHANGED <<cfg_sources, stream_len, ckpt_sources, locals_i, s_processed,
                   s_shard_idx, s_shard, s_file_stats, s_it, s_skipped, doc_count,
                   finished, restarts>>
    /\ UNCHANGED <<chunk_vars, sim_vars, pcall, resume_vars, dedup_vars, harness_vars,
                   driver_vars, checkpoint_vars>>

\* lines 308-331: the source's entry is read, its buffers are created, and the
\* stream is skipped up to processed_docs
BeginSource ==
    /\ src_pc = "source"
    /\ LET s_state == IF CurrentSource \in DOMAIN sources_state
                      THEN sources_state[CurrentSource]
                      ELSE [processed_docs |-> 0, shard_idx |-> 0]
           skipped == IF s_state.processed_docs <= stream_len[CurrentSource]
                      THEN s_state.processed_docs ELSE stream_len[CurrentSource]
       IN  /\ s_processed' = s_state.processed_docs
           /\ s_shard_idx' = s_state.shard_idx
           /\ s_skipped' = skipped
           /\ s_it' = stream_len[CurrentSource] - skipped
    /\ s_shard' = 0
    /\ s_file_stats' = NoFileStats
    /\ doc_count' = 0
    /\ src_pc' = "loop"
    /\ UNCHANGED <<cfg_sources, stream_len, source_configs, sources_state, ckpt_sources,
                   src_pos, locals_i, finished, restarts>>
    /\ UNCHANGED <<chunk_vars, sim_vars, pcall, resume_vars, dedup_vars, harness_vars,
                   driver_vars, checkpoint_vars>>

\* lines 338-486: one iteration of the document loop; the stage chain accepts the
\* document, rejects it, or raises; a rejection at a multiple of
\* checkpoint_every_docs and a full shard save the source's entry
SourceDocument(outcome) ==
    /\ src_pc = "loop"
    /\ s_it > 0
    /\ LET n == s_processed + doc_count
           stats == [s_file_stats EXCEPT
                        !.processed = @ + 1,
                        !.written = IF outcome = "accepted" THEN @ + 1 ELSE @,
                        !.rejected = IF outcome = "rejected" THEN @ + 1 ELSE @]
           full == outcome = "accepted" /\ s_shard + 1 >= run.shard_docs
           idx == IF full THEN s_shard_idx + 1 ELSE s_shard_idx
           saves == \/ full
                    \/ outcome = "rejected" /\ (n + 1) % run.ckpt_every = 0
       IN  /\ locals_i' = <<n>>
           /\ s_file_stats' = stats
           /\ s_shard' = IF full THEN 0
                         ELSE IF outcome = "accepted" THEN s_shard + 1 ELSE s_shard
           /\ s_shard_idx' = idx
           /\ sources_state' =
                  IF saves
                  THEN SetSourceEntry(sources_state, CurrentSource,
                           SourceEntry(n + 1, idx, stats))
                  ELSE sources_state
           /\ ckpt_sources' = IF saves THEN sources_state' ELSE ckpt_sources
    /\ doc_count' = doc_count + 1
    /\ s_it' = s_it - 1
    /\ UNCHANGED <<cfg_sources, stream_len, source_configs, src_pc, src_pos, s_processed,
                   s_skipped, finished, restarts>>
    /\ UNCHANGED <<chunk_vars, sim_vars, pcall, resume_vars, dedup_vars, harness_vars,
                   driver_vars, checkpoint_vars>>

\* lines 488-538: the stream is exhausted; the remaining shard is written and the
\* final entry of the source is saved
EndSource ==
    /\ src_pc = "loop"
    /\ s_it = 0
    /\ LET idx == IF s_shard > 0 THEN s_shard_idx + 1 ELSE s_shard_idx
           final_processed == IF locals_i # <<>> THEN locals_i[1] + 1 ELSE s_processed
       IN  /\ s_shard_idx' = idx
           /\ sources_state' =
                  SetSourceEntry(sources_state, CurrentSource,
                      SourceEntry(final_processed, idx, s_file_stats))
    /\ s_shard' = 0
    /\ ckpt_sources' = sources_state'
    /\ finished' = finished \cup {CurrentSource}
    /\ IF src_pos < Len(source_configs)
       THEN src_pos' = src_pos + 1 /\ src_pc' = "source"
       ELSE src_pos' = src_pos /\ src_pc' = "done"
    /\ UNCHANGED <<cfg_sources, stream_len, source_configs, locals_i, s_processed,
                   s_file_stats, s_it, s_skipped, doc_count, restarts>>
    /\ UNCHANGED <<chunk_vars, sim_vars, pcall, resume_vars, dedup_vars, harness_vars,
                   driver_vars, checkpoint_vars>>

\* the process dies between two steps: only the checkpoint file survives; the
\* next process starts with resume mode auto
SourcesCrash ==
    /\ src_pc \notin {"start", "done"}
    /\ restarts < MaxRestarts
    /\ restarts' = restarts + 1
    /\ source_configs' = <<>>
    /\ sources_state' = EmptyFn
    /\ src_pc' = "start"
    /\ src_pos' = 0
    /\ locals_i' = <<>>
    /\ s_processed' = 0
    /\ s_shard_idx' = 0
    /\ s_shard' = 0
    /\ s_file_stats' = NoFileStats
    /\ s_it' = 0
    /\ s_skipped' = 0
    /\ doc_count' = 0
    /\ finished' = {}
    /\ UNCHANGED <<cfg_sources, stream_len, ckpt_sources>>
    /\ UNCHANGED <<chunk_vars, sim_vars, pcall, resume_vars, dedup_vars, harness_vars,
                   driver_vars, checkpoint_vars>>

NextSources ==
    \/ SourcesStart
    \/ BeginSource
    \/ \E outcome \in {"accepted", "rejected", "raised"} : SourceDocument(outcome)
    \/ EndSource
    \/ SourcesCrash

SpecSources == InitSources /\ [][NextSources]_vars

(***************************************************************************)
(* Properties of the dedup stage and the manager                           *)
(***************************************************************************)
TypeRank(source) ==
    document_type_priority_rank(TypeOf(source, cfg.source_to_document_type),
        cfg.document_type_priority)

SourceRank(source) == source_priority_rank(source, cfg.source_priority)

TypePriorityOn ==
    cfg.document_type_priority # <<>> /\ DOMAIN cfg.source_to_document_type # {}

NoPriorityOn == ~TypePriorityOn /\ cfg.source_priority = <<>>

\* b is ranked lower than a under the configured priority
RankedLower(b, a) ==
    IF TypePriorityOn
    THEN \/ TypeRank(b) > TypeRank(a)
         \/ TypeRank(b) = TypeRank(a) /\ cfg.source_priority # <<>>
              /\ SourceRank(b) > SourceRank(a)
    ELSE cfg.source_priority # <<>> /\ SourceRank(b) > SourceRank(a)

\* the two texts are duplicates for one of the similarity stores
Similar(t1, t2) ==
    \/ cfg.simhash /\ hamming_distance(compute_simhash(hash_seed, t1),
                          compute_simhash(hash_seed, t2)) <= MaxHamming
    \/ cfg.minhash /\ LshCollide(_minhash_signature(t1, MinHashNgram),
                          _minhash_signature(t2, MinHashNgram))

\* the documents committed before the last application, by this manager instance
\* or by one before it (whose records it loaded), whose text is a duplicate of the
\* text of the last application for the similarity stores
Matches == {d \in last.pre_committed : Similar(d.text, last.text)}

\* the case of C8: the last application handed in the text of a document that
\* this manager instance kept (KEEP) and fingerprinted, from a source ranked
\* lower than that document's (or with no priority configured)
C8_Case(c) ==
    /\ last.op = "apply"
    /\ c.live /\ c.action = "KEEP" /\ c.text = last.text
    /\ NoPriorityOn \/ RankedLower(last.source, c.source)

\* C8 as stated: after a document from source A received KEEP and was
\* fingerprinted, the same text from a lower-ranked source B (or without any
\* priority) gets DROP with existing_sources = [A]
C8_AsStated ==
    \A c \in last.pre_committed :
        C8_Case(c) =>
            /\ last.decision.action = "DROP"
            /\ last.decision.existing_sources = <<c.source>>

\* C8: with the SimHash or the MinHash store enabled, after a document from
\* source A received KEEP and was fingerprinted by this manager, the same text
\* from a lower-ranked source B (or without any priority) gets DROP and A is among
\* existing_sources; existing_sources is [A] when A's document is the only one
\* ever committed that the similarity stores match
C8_DropListsA ==
    \A c \in last.pre_committed :
        (C8_Case(c) /\ (cfg.simhash \/ cfg.minhash)) =>
            /\ last.decision.action = "DROP"
            /\ c.source \in SeqRange(last.decision.existing_sources)
            /\ (Matches = {c} => last.decision.existing_sources = <<c.source>>)

C8_Witness ==
    /\ cfg.source_priority = <<"A", "B">>
    /\ last.op = "apply" /\ last.source = "B"
    /\ last.decision.action = "DROP"
    /\ last.decision.existing_sources = <<"A">>
    /\ \E c \in last.pre_committed : C8_Case(c) /\ c.source = "A" /\ Matches = {c}

\* the case of C9: type priority is configured, a committed document has the text
\* of the last application, the SimHash or MinHash query matched, and every
\* matched document's source maps to a type of strictly lower priority than the
\* incoming source's type
C9_Case ==
    /\ last.op = "apply"
    /\ TypePriorityOn
    /\ last.decision.match_type \in {"simhash", "minhash"}
    /\ \E c \in last.pre_committed : c.live /\ c.text = last.text
    /\ \A s \in SeqRange(last.decision.existing_sources) :
           TypeRank(last.source) < TypeRank(s)

C10_Expected ==
    LET t == _normalize_chunk(last.text)
        n == (Len(t) + ChunkSize - 1) \div ChunkSize
        piece(k) == _normalize_chunk(Slice(t, k * ChunkSize, (k + 1) * ChunkSize))
        idx == SortedKeys({k \in 0..(n - 1) : sha256_bytes(piece(k)) \in last.pre_chunks})
    IN  [j \in 1..Len(idx) |-> ToString(idx[j])]

\* the case of C10: the default configuration, no SimHash or MinHash match (so
\* no verdict from them), and some chunk of the text already in the chunk store
C10_Case ==
    /\ last.op = "apply"
    /\ cfg = DefaultConfig
    /\ last.decision.match_type \notin {"simhash", "minhash"}
    /\ C10_Expected # <<>>

\* C10: in the default configuration a document with no SimHash or MinHash
\* verdict and at least one chunk already stored gets KEEP_LINK, never DROP, and
\* duplicate_chunk_ids lists exactly the 0-based indices of its stored chunks, in order
C10_KeepLinkChunkIds ==
    C10_Case =>
        /\ last.decision.action = "KEEP_LINK"
        /\ last.decision.duplicate_chunk_ids = C10_Expected
        /\ last.accepted

C10_Witness ==
    /\ C10_Case
    /\ last.text = T_aabbcc
    /\ last.decision.action = "KEEP_LINK"
    /\ last.decision.duplicate_chunk_ids = <<"1">>
    /\ \E c \in last.pre_committed : c.source # last.source

\* C3 as stated: a document that was accepted and fingerprinted just before the
\* process ended, handed to the stage again by the next process, is accepted again
C3_IdempotentOnRedo ==
    (last.op = "apply" /\ last.redo) => last.accepted

RECURSIVE SumLen(_, _)
\* the number of records in the lists f[k], k in K
SumLen(f, K) ==
    IF K = {} THEN 0
    ELSE LET k == CHOOSE x \in K : TRUE IN Len(f[k]) + SumLen(f, K \ {k})

\* the number of records each store's index holds
StoreSizes(m) ==
    [simhash |-> Len(Flatten([k \in 1..Len(m.simhash) |-> m.simhash[k].recs])),
     minhash |-> Cardinality(DOMAIN m.minhash.key_to_record),
     chunk |-> SumLen(m.chunk, DOMAIN m.chunk)]

\* the records one add_fingerprints call for the text adds to each enabled store
AddedSizes(text) ==
    [simhash |-> IF cfg.simhash THEN 1 ELSE 0,
     minhash |-> IF cfg.minhash THEN 1 ELSE 0,
     chunk |-> IF cfg.chunk
               THEN Len(compute_chunk_hashes(text, ChunkSize, ChunkOverlap)) ELSE 0]

\* the stores grew from m1 to m2 by exactly the records in added
GrewBy(m1, m2, added) ==
    /\ StoreSizes(m2).simhash = StoreSizes(m1).simhash + added.simhash
    /\ StoreSizes(m2).minhash = StoreSizes(m1).minhash + added.minhash
    /\ StoreSizes(m2).chunk = StoreSizes(m1).chunk + added.chunk

NoneAdded == [simhash |-> 0, minhash |-> 0, chunk |-> 0]

\* C11: in every application of the dedup stage query_and_decide is invoked
\* exactly once and first; add_fingerprints follows exactly once if and only if
\* the verdict is KEEP or KEEP_LINK (each enabled store then grows by one
\* document) and never on DROP (stores and files stay as they were); the stage
\* rejects, with reason DUP_GLOBAL, if and only if the verdict is DROP
C11_QueryOnceAddOnKeep ==
    [][(last'.op = "apply" /\ nops' = nops + 1) =>
          /\ last'.decision.action \in {"KEEP", "KEEP_LINK", "DROP"}
          /\ last'.calls = IF last'.decision.action = "DROP"
                           THEN <<"query_and_decide">>
                           ELSE <<"query_and_decide", "add_fingerprints">>
          /\ last'.added <=> last'.decision.action \in {"KEEP", "KEEP_LINK"}
          /\ last'.accepted <=> last'.decision.action # "DROP"
          /\ last'.reason_code = IF last'.accepted THEN "" ELSE "DUP_GLOBAL"
          /\ IF last'.decision.action = "DROP"
             THEN GrewBy(mgr, mgr', NoneAdded) /\ fp_disk' = fp_disk
             ELSE GrewBy(mgr, mgr', AddedSizes(last'.text))]_vars

C11_Witness ==
    /\ last.op = "apply"
    /\ last.decision.action = "KEEP_LINK"
    /\ last.accepted /\ last.added
    /\ last.calls = <<"query_and_decide", "add_fingerprints">>
    /\ mgr.metrics.total_dropped > 0

(***************************************************************************)
(* Properties of build_local                                               *)
(***************************************************************************)
\* document n is in a shard file on disk
InShardFile(n) ==
    \E k \in DOMAIN shard_files :
        \E j \in 1..Len(shard_files[k]) : shard_files[k][j].idx = n

\* a rejection record of document n is in rejections.jsonl on disk
InRejections(n) == \E j \in 1..Len(rejections) : rejections[j].idx = n

\* the documents below the saved processed_docs, which a resumed run skips
Checkpointed == 0..(ckpt_file.processed_docs - 1)

\* C1 as stated: every document that all stages accepted and that the saved
\* checkpoint covers is in a shard file on disk, so that a resumed run, which
\* skips the covered documents, loses none of them
C1_CheckpointedAcceptedOnDisk ==
    \A n \in accepted_docs : n \in Checkpointed => InShardFile(n)

\* C2 as stated: the saved processed_docs never exceeds the documents whose
\* outcome is durable: every document a resumed run skips is in a shard file or
\* has its rejection record in rejections.jsonl
C2_CheckpointWithinDurable ==
    \A n \in Checkpointed : InShardFile(n) \/ InRejections(n)

\* the fingerprints of the kept document g are in the files of the stores (the
\* file of a signature or of a chunk hash names the document that stored it last)
FingerprintsStored(g) ==
    /\ cfg.simhash => compute_simhash(g.seed, g.text) \in DOMAIN fp_disk.simhash
    /\ cfg.minhash =>
           /\ fp_disk.minhash_docs.present
           /\ \E key \in DOMAIN fp_disk.minhash_docs.docs :
                  /\ fp_disk.minhash_docs.docs[key].doc_id = DocId(g.text)
                  /\ fp_disk.minhash_docs.docs[key].source = g.source
    /\ cfg.chunk =>
           \A c \in SeqRange(compute_chunk_hashes(g.text, ChunkSize, ChunkOverlap)) :
               c.h \in DOMAIN fp_disk.chunk

\* C4: once a checkpoint with processed_docs = k is saved, every document below k
\* that the dedup stage kept (KEEP or KEEP_LINK) has its fingerprints in the
\* files of the fingerprint stores
C4_CheckpointedFingerprintsDurable ==
    \A g \in kept_docs : g.idx \in Checkpointed => FingerprintsStored(g)

C4_Witness ==
    /\ ckpt_file.processed_docs = 2
    /\ crashes = 1
    /\ \E g \in kept_docs : g.idx = 1 /\ g.seed = 1 /\ FingerprintsStored(g)
    /\ \E g \in kept_docs : g.idx = 0 /\ g.seed = 0 /\ FingerprintsStored(g)

\* every stage that ran on the routed document r accepted it
AllAccepted(r) ==
    /\ ~r.raised
    /\ Len(r.decisions) = Len(StageOrder)
    /\ \A k \in 1..Len(r.decisions) : r.decisions[k].accepted

\* C5 as stated: every document this process pulled went to exactly one sink,
\* the shard buffer if and only if every stage accepted it and one rejection
\* record otherwise, and the counters count it once, as written or as rejected
C5_ExactlyOneSink ==
    /\ \A n \in DOMAIN routed :
           \/ routed[n].appended = 1 /\ routed[n].records = <<>> /\ AllAccepted(routed[n])
           \/ routed[n].appended = 0 /\ Len(routed[n].records) = 1
                  /\ ~AllAccepted(routed[n])
    /\ total_written_docs + total_rejected_docs = Cardinality(DOMAIN routed)

\* C6: the stages run in configured order, the chain stops at the first
\* rejection (no later stage is invoked), a document that no stage rejected went
\* through all of them, and the rejection record names the rejecting stage and its
\* reason code
C6_ChainStopsAtFirstRejection ==
    \A n \in DOMAIN routed :
        LET r == routed[n]
        IN  /\ Len(r.applied) <= Len(StageOrder)
            /\ r.applied = SubSeq(StageOrder, 1, Len(r.applied))
            /\ Len(r.decisions) = IF r.raised THEN Len(r.applied) - 1 ELSE Len(r.applied)
            /\ \A k \in 1..Len(r.decisions) :
                   /\ r.decisions[k].stage = StageOrder[k]
                   /\ ~r.decisions[k].accepted =>
                          /\ k = Len(r.applied)
                          /\ r.appended = 0
                          /\ Len(r.records) = 1
                          /\ r.records[1].stage = StageOrder[k]
                          /\ r.records[1].reason_code = r.decisions[k].reason_code
            /\ (~r.raised /\ ~Rejected(r)) => r.applied = StageOrder

C6_Witness ==
    \E n \in DOMAIN routed :
        /\ routed[n].applied = <<"license_gate", "global_dedup">>
        /\ routed[n].decisions[1].accepted
        /\ ~routed[n].decisions[2].accepted
        /\ routed[n].records[1].stage = "global_dedup"
        /\ routed[n].records[1].reason_code = "DUP_GLOBAL"

\* a stage raised an exception on a document of this process
SomeStageRaised == \E n \in DOMAIN routed : routed[n].raised

\* the run of this source is over and every document of the stream was processed
RunComplete == pc = "done" /\ i + 1 = MaxDocs /\ ckpt_file.processed_docs = MaxDocs

\* C7: when a stage raises on document i, the document gets one rejection record
\* with stage runtime_error and reason code RUNTIME_ERROR carrying the
\* exception's message, the loop goes on to the next document, and the run
\* terminates with every remaining document processed
C7_RuntimeErrorContinues ==
    /\ [](\A n \in DOMAIN routed :
              routed[n].raised =>
                  /\ routed[n].appended = 0
                  /\ Len(routed[n].records) = 1
                  /\ routed[n].records[1].stage = "runtime_error"
                  /\ routed[n].records[1].reason_code = "RUNTIME_ERROR"
                  /\ routed[n].records[1].reason_detail = routed[n].message
                  /\ (n = i => pc \in {"next", "final_shard", "final_log",
                                       "final_ckpt", "done"}))
    /\ (SomeStageRaised ~> RunComplete)

C7_Witness ==
    /\ RunComplete
    /\ routed[0].raised
    /\ ~routed[2].raised /\ routed[2].appended = 1
    /\ \E j \in 1..Len(rejections) :
           /\ rejections[j].idx = 0
           /\ rejections[j].stage = "runtime_error"
           /\ rejections[j].reason_detail = "stage failure"
    /\ InShardFile(2)

\* the records of the SimHash index, of the MinHash document list and of the
\* chunk index of the manager m
SimHashRecords(m) == Flatten([k \in 1..Len(m.simhash) |-> m.simhash[k].recs])

MinHashRecords(m) ==
    LET keys == SortedKeys(DOMAIN m.minhash.key_to_record)
    IN  [k \in 1..Len(keys) |-> m.minhash.key_to_record[keys[k]]]

ChunkRecords(m) ==
    LET hs == SetToSeq(DOMAIN m.chunk) IN Flatten([k \in 1..Len(hs) |-> m.chunk[hs[k]]])

\* the doc_ids that have a record in some store, in memory or in the files
StoredDocIds ==
    {r.doc_id : r \in SeqRange(SimHashRecords(mgr)) \cup SeqRange(MinHashRecords(mgr))
                      \cup SeqRange(ChunkRecords(mgr))}
    \cup {fp_disk.simhash[v].doc_id : v \in DOMAIN fp_disk.simhash}
    \cup {fp_disk.chunk[h].doc_id : h \in DOMAIN fp_disk.chunk}
    \cup {fp_disk.minhash_docs.docs[k].doc_id : k \in DOMAIN fp_disk.minhash_docs.docs}

\* the number of records of the list recs that belong to the document id
RecordsOf(recs, id) == Cardinality({k \in 1..Len(recs) : recs[k].doc_id = id})

\* C12 as stated: fingerprint records exist only for documents that every stage
\* accepted (a document kept by the dedup stage and then rejected by a later
\* stage, or ending in a runtime error, leaves none), and a document this process
\* accepted has exactly one record in the SimHash and in the MinHash store
C12_FingerprintsOnlyForAccepted ==
    /\ \A id \in StoredDocIds :
           \E n \in accepted_docs : n < Len(stream) /\ DocId(stream[n + 1].text) = id
    /\ \A n \in DOMAIN routed :
           AllAccepted(routed[n]) =>
               /\ cfg.simhash =>
                      RecordsOf(SimHashRecords(mgr), DocId(stream[n + 1].text)) = 1
               /\ cfg.minhash =>
                      RecordsOf(MinHashRecords(mgr), DocId(stream[n + 1].text)) = 1

(***************************************************************************)
(* Properties of the manager's interface and of the stores                 *)
(***************************************************************************)
\* the verdicts of query_and_decide on the manager m for every source and text
Verdicts(m) ==
    [s \in Sources |->
        [t \in Texts |-> query_and_decide(m, cfg, hash_seed, s, t).decision]]

\* the step calls add_fingerprints again, with the arguments of the call before it
AddedAgain ==
    /\ last.op = "add" /\ last'.op = "add" /\ nops' = nops + 1
    /\ last'.source = last.source /\ last'.text = last.text

\* C13 as stated: a second add_fingerprints call with the same doc_id, source and
\* text leaves every store with the records it had after the first (one per
\* store, one per chunk) and every query with the result it had
C13_AddTwiceAsOnce ==
    [][AddedAgain => GrewBy(mgr, mgr', NoneAdded) /\ Verdicts(mgr') = Verdicts(mgr)]_vars

\* the stores that hold a record matching the text under the current hash seed
SimHashMatches(text) ==
    SimHashStore_query(mgr.simhash, compute_simhash(hash_seed, text)) # <<>>

MinHashMatches(text) ==
    MinHashStore_query(mgr.minhash, _minhash_signature(text, MinHashNgram)) # <<>>

\* the queries of query_and_decide on the text, as the order of the stores and
\* the verdicts found in the state before the call prescribe them
ExpectedQueries(text) ==
    (IF cfg.simhash THEN <<"simhash">> ELSE <<>>)
    \o (IF cfg.minhash /\ ~(cfg.simhash /\ SimHashMatches(text))
        THEN <<"minhash">> ELSE <<>>)
    \o (IF /\ cfg.chunk
           /\ ~(cfg.simhash /\ SimHashMatches(text))
           /\ ~(cfg.minhash /\ MinHashMatches(text))
        THEN [k \in 1..Len(compute_chunk_hashes(text, ChunkSize, ChunkOverlap)) |->
                 "chunk_hash"]
        ELSE <<>>)

\* C14: query_and_decide queries the enabled stores in the order SimHash, MinHash,
\* ChunkHash (once per chunk), MinHash only when SimHash did not match and the
\* chunk store only when neither matched; a SimHash match ends in DROP or KEEP
\* with match type simhash and no query of a later store
C14_StoresInOrder ==
    [][(last'.op = "query" /\ nops' = nops + 1) =>
          /\ last'.queried = ExpectedQueries(last'.text)
          /\ (cfg.simhash /\ SimHashMatches(last'.text)) =>
                 /\ last'.decision.action \in {"DROP", "KEEP"}
                 /\ last'.decision.match_type = "simhash"
                 /\ last'.queried = <<"simhash">>]_vars

\* a SimHash match kept by priority, in a configuration with all three stores
C14_Witness ==
    /\ last.op = "query"
    /\ cfg.simhash /\ cfg.minhash /\ cfg.chunk
    /\ last.decision.action = "KEEP"
    /\ last.decision.match_type = "simhash"
    /\ last.queried = <<"simhash">>

\* the step is a query_and_decide call in which a SimHash or MinHash match lost
\* the priority comparison
LostPriority ==
    /\ last'.op = "query" /\ nops' = nops + 1
    /\ last'.decision.match_type \in {"simhash", "minhash"}
    /\ last'.decision.existing_sources # <<>>
    /\ ~_should_keep_incoming(cfg, last'.source, last'.decision.existing_sources)

\* C15 as stated: a SimHash or MinHash match that loses the priority comparison
\* gives DROP, and cross_dataset_collisions grows by one exactly when some matching
\* record's source differs from the incoming document's source (else it stays)
C15_CollisionIffOtherSource ==
    [][LostPriority =>
          /\ last'.decision.action = "DROP"
          /\ mgr'.metrics.cross_dataset_collisions =
                 mgr.metrics.cross_dataset_collisions
                 + (IF \E s \in SeqRange(last'.decision.existing_sources) :
                           s # last'.source
                    THEN 1 ELSE 0)]_vars

\* the list s is the beginning of the list t
IsPrefix(s, t) == Len(s) <= Len(t) /\ \A k \in 1..Len(s) : t[k] = s[k]

\* every record of the indexes of m1 is in the indexes of m2, unchanged and in place
RecordsKept(m1, m2) ==
    /\ Len(m1.simhash) <= Len(m2.simhash)
    /\ \A k \in 1..Len(m1.simhash) :
           /\ m2.simhash[k].sig = m1.simhash[k].sig
           /\ IsPrefix(m1.simhash[k].recs, m2.simhash[k].recs)
    /\ \A key \in DOMAIN m1.minhash.key_to_record :
           /\ key \in DOMAIN m2.minhash.key_to_record
           /\ m2.minhash.key_to_record[key] = m1.minhash.key_to_record[key]
    /\ m1.minhash.lsh \subseteq m2.minhash.lsh
    /\ \A h \in DOMAIN m1.chunk :
           /\ h \in DOMAIN m2.chunk
           /\ IsPrefix(m1.chunk[h], m2.chunk[h])

\* what matches in m1 matches in m2: every record a store's query returns for a text
\* in m1 is returned for it in m2
MatchesKept(m1, m2) ==
    \A t \in Texts :
        /\ IsPrefix(SimHashStore_query(m1.simhash, compute_simhash(hash_seed, t)),
               SimHashStore_query(m2.simhash, compute_simhash(hash_seed, t)))
        /\ SeqRange(MinHashStore_query(m1.minhash, _minhash_signature(t, MinHashNgram)))
               \subseteq
           SeqRange(MinHashStore_query(m2.minhash, _minhash_signature(t, MinHashNgram)))
        /\ \A c \in SeqRange(compute_chunk_hashes(t, ChunkSize, ChunkOverlap)) :
               IsPrefix(ChunkHashStore_query(m1.chunk, c.h),
                   ChunkHashStore_query(m2.chunk, c.h))

\* C16: within a process, every query_and_decide and add_fingerprints call leaves
\* each record of each store's index in place and unchanged (records are only
\* appended, also when a higher-priority document matched and was kept), and
\* whatever a store's query matched before the call it matches after it
C16_AppendOnly ==
    [][(last'.op \in {"query", "add"} /\ nops' = nops + 1) =>
          RecordsKept(mgr, mgr') /\ MatchesKept(mgr, mgr')]_vars

\* the record of a document stays under its signature after the fingerprints of
\* a document from a higher-priority source were added under the same signature
C16_Witness ==
    /\ last.op = "add"
    /\ \E k \in 1..Len(mgr.simhash) :
           /\ Len(mgr.simhash[k].recs) = 2
           /\ mgr.simhash[k].recs[2].source = last.source
           /\ _should_keep_incoming(cfg, last.source,
                  <<mgr.simhash[k].recs[1].source>>)

\* C17 as stated: after a restart on the same root path the reloaded SimHash and
\* chunk-hash indexes hold every record the indexes held before it (same value,
\* doc_id and source), also when several records share a signature or chunk hash
C17_ReloadKeepsRecords ==
    [][(last'.op = "reload" /\ nops' = nops + 1) =>
          /\ SeqRange(SimHashRecords(mgr)) \subseteq SeqRange(SimHashRecords(mgr'))
          /\ SeqRange(ChunkRecords(mgr)) \subseteq SeqRange(ChunkRecords(mgr'))]_vars

\* the verdict a document identical to a committed one, from the same source, is
\* due: a match, DROP where SimHash or MinHash is enabled, else KEEP_LINK
MatchVerdictDue == IF cfg.simhash \/ cfg.minhash THEN "DROP" ELSE "KEEP_LINK"

\* C18 as stated: in every configuration, query_and_decide for a document with the
\* text and source of a document committed earlier reports the match (DROP with
\* SimHash or MinHash enabled, KEEP_LINK with the chunk store alone), whether or
\* not the process restarted on the same root path in between
C18_VerdictsSurviveRestart ==
    \A c \in committed :
        query_and_decide(mgr, cfg, hash_seed, c.source, c.text).decision.action
            = MatchVerdictDue

(***************************************************************************)
(* Properties of the checkpoint store                                      *)
(***************************************************************************)
\* C19: whenever the process dies during save, the checkpoint file a later load
\* reads is the complete dump of the state of the last save that returned (the
\* previous state until os.replace, the new one from then on), never a part of
\* a dump, and load does not fail on it
C19_SaveCrashAtomic ==
    /\ ckpt_files[path].exists =>
           /\ durable # NoState
           /\ ckpt_files[path].content = json_dump(durable)
           /\ json_valid(ckpt_files[path].content)
    /\ ~ckpt_files[path].exists => durable = NoState
    /\ ck_last.op = "load" =>
           /\ ~ck_last.raised
           /\ ck_last.mode = "auto" /\ durable # NoState =>
                  ckpt_state = SetItem(durable, "resume_mode", "auto")

\* the process died in the middle of json.dump of a second save, and the load
\* of the next process returned the state of the first
C19_Witness ==
    /\ ck_last.op = "load" /\ ck_last.mode = "auto"
    /\ ckpt_files[tmp].exists
    /\ Len(ckpt_files[tmp].content) \in 2..3
    /\ ckpt_files[path].exists
    /\ durable["updated_at_ms"] = 1
    /\ now = 2
    /\ ckpt_state["sources"] = durable["sources"]

\* the dicts a and b have the same keys and values, the keys in except aside
SameExcept(a, b, except) ==
    /\ DOMAIN a \ except = DOMAIN b \ except
    /\ \A key \in DOMAIN a \ except : a[key] = b[key]

\* load with resume mode auto was called right after a save returned
LoadedAfterSave ==
    ck_last.op = "load" /\ ck_last.after = "save" /\ ck_last.mode = "auto"

\* C20 as stated: load with resume mode auto right after save(state) returns a
\* state equal to the saved one in every field except updated_at_ms
C20_AsStated ==
    LoadedAfterSave =>
        ~ck_last.raised /\ SameExcept(ckpt_state, durable, {"updated_at_ms"})

\* C20: load with resume mode auto right after save(state) returns the saved
\* state (run_id and updated_at_ms as save set them) in every field except
\* resume_mode, which load sets to auto
C20_RoundTripButResumeMode ==
    LoadedAfterSave =>
        /\ ~ck_last.raised
        /\ SameExcept(ckpt_state, durable, {"resume_mode"})
        /\ ckpt_state["resume_mode"] = "auto"

\* a state loaded with resume mode beginning, given progress, saved and loaded
C20_Witness ==
    /\ LoadedAfterSave
    /\ durable["resume_mode"] = "beginning"
    /\ "A" \in DOMAIN ckpt_state["sources"]
    /\ ckpt_state["sources"]["A"].processed_docs = 2
    /\ ckpt_state["run_id"] = run_id
    /\ ckpt_state["updated_at_ms"] = now

\* the state st is the dict of the live checkpoint file if the file exists, and a
\* fresh state with no sources otherwise
LiveOrFresh(st) ==
    IF ckpt_files[path].exists
    THEN SameExcept(st, json_load(ckpt_files[path].content), {"resume_mode"})
    ELSE st["sources"] = EmptyFn /\ DOMAIN st = {"sources", "resume_mode"}

\* the .json files of the directory that the checkpoint id names, exactly or as
\* a prefix
Named(checkpoint_id) ==
    {f \in JsonFiles : /\ ckpt_files[f].exists
                       /\ StartsWith(NameChars(f), NameChars(checkpoint_id))}

\* the step is a call of load that returns or raises
LoadStep ==
    /\ ck_last'.op = "load"
    /\ ck_last' # ck_last \/ ckpt_state' # ckpt_state

\* C21: load returns, for beginning and ignore, a state with no sources whatever
\* live checkpoint exists; for checkpoint with an id, the dict of a snapshot the
\* id names if there is one, else the live checkpoint if it exists, else a fresh
\* state; for auto, the live checkpoint if it exists, else a fresh state
C21_LoadByMode ==
    [][LoadStep =>
          /\ ~ck_last'.raised
          /\ ckpt_state'["resume_mode"] = ck_last'.mode
          /\ ck_last'.mode \in {"beginning", "ignore"} =>
                 ckpt_state'["sources"] = EmptyFn
          /\ ck_last'.mode = "auto" => LiveOrFresh(ckpt_state')
          /\ (ck_last'.mode = "checkpoint" /\ ck_last'.checkpoint_id # "") =>
                 IF Named(ck_last'.checkpoint_id) # {}
                 THEN \E f \in Named(ck_last'.checkpoint_id) :
                          SameExcept(ckpt_state', json_load(ckpt_files[f].content),
                              {"resume_mode", "checkpoint_id"})
                 ELSE LiveOrFresh(ckpt_state')]_vars

\* the snapshot of the other run was loaded by its id while a live checkpoint
\* with other progress exists
C21_Witness ==
    /\ ck_last.op = "load" /\ ck_last.mode = "checkpoint"
    /\ ck_last.checkpoint_id = "run0"
    /\ ckpt_files[path].exists
    /\ ckpt_state["run_id"] = "run0"
    /\ durable["sources"] # ckpt_state["sources"]

\* C22 as stated: when the live checkpoint file is zero-length or not parsable,
\* load in mode auto does not raise and returns a fresh state with no sources
C22_UnparsableAsAbsent ==
    [][(/\ LoadStep
        /\ ck_last'.mode = "auto"
        /\ ckpt_files[path].exists
        /\ ~json_valid(ckpt_files[path].content)) =>
          /\ ~ck_last'.raised
          /\ ckpt_state' = FreshState("auto")]_vars

\* C23: a new manager is constructed whatever fingerprint files are zero-length
\* or unparsable: the SimHash and chunk-hash indexes then hold exactly the
\* records of the files that parse, and the MinHash store starts with an empty
\* document map when its document list does not parse
C23_UnparsableFilesSkipped ==
    [][(last'.op = "reload" /\ nops' = nops + 1) =>
          /\ cfg.simhash =>
                 SeqRange(SimHashRecords(mgr')) =
                     {fp_disk.simhash[v] :
                          v \in DOMAIN fp_disk.simhash \ fp_disk.unparsable.simhash}
          /\ cfg.chunk =>
                 SeqRange(ChunkRecords(mgr')) =
                     {fp_disk.chunk[h] :
                          h \in DOMAIN fp_disk.chunk \ fp_disk.unparsable.chunk}
          /\ (cfg.minhash /\ fp_disk.unparsable.minhash_docs) =>
                 mgr'.minhash.key_to_record = EmptyFn]_vars

\* a manager was constructed on a root path with an unparsable chunk-hash file
\* and a parsable one, and its index holds the record of the parsable file
C23_Witness ==
    /\ last.op = "reload"
    /\ cfg.chunk
    /\ fp_disk.unparsable.chunk # {}
    /\ DOMAIN fp_disk.chunk \ fp_disk.unparsable.chunk # {}
    /\ Len(ChunkRecords(mgr)) >= 1

\* C24: a run whose configuration enables a matching strategy never proceeds
\* without it: when add_fingerprints has returned under a configuration that
\* enables MinHash, the MinHash store holds a record (and likewise for the
\* SimHash and chunk-hash stores)
C24_EnabledStrategyNeverOff ==
    (last.op = "add") =>
        /\ cfg.simhash => StoreSizes(mgr).simhash > 0
        /\ cfg.minhash => StoreSizes(mgr).minhash > 0
        /\ cfg.chunk => StoreSizes(mgr).chunk > 0

(***************************************************************************)
(* Properties of the resume loops                                           *)
(***************************************************************************)
\* C25: on resume from processed_docs = N the driver discards the first N
\* records of the stream (all of them when the stream holds fewer) without
\* handing any to the document loop; the records handed on are those at stream
\* index N, N + 1, ... in order, so the first one is at index N; and a stream of
\* fewer than N records is read to its end with no record processed
C25_SkipsFirstN ==
    /\ loop_pc = "skip" => passed = <<>> /\ it = skipped_count
    /\ skipped_count <= processed
    /\ loop_pc # "skip" =>
           skipped_count = (IF Len(records) < processed THEN Len(records) ELSE processed)
    /\ \A k \in 1..Len(passed) :
           /\ passed[k].index = processed + k - 1
           /\ passed[k].raw = records[processed + k]
           /\ passed[k].i = passed[k].index
    /\ Len(records) < processed => passed = <<>>
    /\ loop_pc = "end" =>
           Len(passed) = (IF Len(records) < processed THEN 0
                          ELSE Len(records) - processed)

\* a resumed run that skipped a record and then handed the next one to the loop
C25_Witness ==
    /\ loop_pc = "end"
    /\ processed > 0
    /\ skipped_count = processed
    /\ passed # <<>>
    /\ passed[1].index = processed

(***************************************************************************)
(* Properties of the priority resolver                                      *)
(***************************************************************************)
\* some non-empty entry of the list matches the name
Ranked(name, order) ==
    \E k \in 1..Len(order) :
        /\ NormName(order[k]) # <<>>
        /\ LabelMatches(NormName(name), NormName(order[k]))

\* C26: with a non-empty priority list and at least one existing source,
\* should_keep_incoming_by_priority returns true exactly when the incoming
\* source's rank is strictly below the rank of every existing source; so a
\* ranked incoming source displaces existing sources that are all unranked, and
\* an unranked incoming source displaces none
C26_KeepIffStrictlyBestRank ==
    (pcall.fn = "should_keep_incoming_by_priority" /\ pcall.order # <<>>
         /\ pcall.existing # <<>>) =>
        /\ pcall.result \in BOOLEAN
        /\ pcall.result <=>
               \A k \in 1..Len(pcall.existing) :
                   source_priority_rank(pcall.incoming, pcall.order)
                       < source_priority_rank(pcall.existing[k], pcall.order)
        /\ (Ranked(pcall.incoming, pcall.order)
              /\ \A k \in 1..Len(pcall.existing) :
                     ~Ranked(pcall.existing[k], pcall.order)) => pcall.result
        /\ ~Ranked(pcall.incoming, pcall.order) => ~pcall.result

\* a ranked incoming source was kept over existing sources that are all unranked
C26_Witness ==
    /\ pcall.fn = "should_keep_incoming_by_priority"
    /\ pcall.order # <<>>
    /\ Len(pcall.existing) = 2
    /\ Ranked(pcall.incoming, pcall.order)
    /\ \A k \in 1..Len(pcall.existing) : ~Ranked(pcall.existing[k], pcall.order)
    /\ pcall.result

\* the type rank of a source under the call's mapping and type list
CallTypeRank(source) ==
    document_type_priority_rank(TypeOf(source, pcall.type_map), pcall.type_order)

\* C27: with a type list, a type mapping and at least one existing match,
\* should_keep_incoming_by_type_and_source keeps the incoming document when its
\* type rank is strictly below the lowest type rank of the existing matches,
\* drops it when strictly above, and on equal rank returns the source-level
\* comparison when a source priority list is configured, otherwise drops it
C27_TypeRankThenSource ==
    (pcall.fn = "should_keep_incoming_by_type_and_source" /\ pcall.type_order # <<>>
         /\ DOMAIN pcall.type_map # {} /\ pcall.existing # <<>>) =>
        LET best == MinOf({CallTypeRank(pcall.existing[k]) : k \in 1..Len(pcall.existing)})
            mine == CallTypeRank(pcall.incoming)
        IN  /\ mine < best => pcall.result
            /\ mine > best => ~pcall.result
            /\ (mine = best /\ pcall.order # <<>>) =>
                   (pcall.result <=>
                        should_keep_incoming_by_priority(
                            pcall.incoming, pcall.existing, pcall.order))
            /\ (mine = best /\ pcall.order = <<>>) => ~pcall.result

\* the incoming document was kept on equal type rank by the source priority
C27_Witness ==
    /\ pcall.fn = "should_keep_incoming_by_type_and_source"
    /\ pcall.type_order # <<>>
    /\ DOMAIN pcall.type_map # {}
    /\ pcall.existing # <<>>
    /\ CallTypeRank(pcall.incoming) =
           MinOf({CallTypeRank(pcall.existing[k]) : k \in 1..Len(pcall.existing)})
    /\ pcall.order # <<>>
    /\ pcall.result

\* entry k of the call's list, lower-cased as it stands, equals, is a prefix of,
\* or is a substring of the lower-cased name
EntryMatchesAsIs(k) ==
    LET t == LowerText(Chars(pcall.name))
        L == LowerText(Chars(pcall.order[k]))
    IN  t = L \/ StartsWith(t, L) \/ Contains(t, L)

\* entry k of the call's list, trimmed and lower-cased, is not empty and equals,
\* is a prefix of, or is a substring of the trimmed and lower-cased name
EntryMatchesTrimmed(k) ==
    LET t == NormName(pcall.name)
        L == NormName(pcall.order[k])
    IN  L # <<>> /\ (t = L \/ StartsWith(t, L) \/ Contains(t, L))

RankCall == pcall.fn \in {"document_type_priority_rank", "source_priority_rank"}

\* C28 as stated: the rank is the index of the first entry that equals, is a
\* prefix of, or is a substring of the name, compared case-insensitively, and
\* the list length when there is none
C28_AsStated ==
    RankCall =>
        /\ pcall.result \in 0..Len(pcall.order)
        /\ pcall.result < Len(pcall.order) => EntryMatchesAsIs(pcall.result + 1)
        /\ \A k \in 1..pcall.result : ~EntryMatchesAsIs(k)

\* C28: the rank is the index of the first entry that, trimmed and lower-cased,
\* is not empty and equals, is a prefix of, or is a substring of the trimmed and
\* lower-cased name, and the list length when there is none; so an unmatched
\* name ranks strictly above (worse than) every matched name of the same list
C28_FirstNonEmptyEntry ==
    RankCall =>
        /\ pcall.result \in 0..Len(pcall.order)
        /\ pcall.result < Len(pcall.order) => EntryMatchesTrimmed(pcall.result + 1)
        /\ \A k \in 1..pcall.result : ~EntryMatchesTrimmed(k)

\* a name ranked by its second entry, a substring, after an entry that does not match
C28_Witness ==
    /\ pcall.fn = "source_priority_rank"
    /\ pcall.name = "books"
    /\ Len(pcall.order) = 2
    /\ pcall.order[2] = "ok"
    /\ pcall.result = 1

(***************************************************************************)
(* Properties of the SimHash store                                          *)
(***************************************************************************)
\* the bit positions at which two signatures differ
Differing(a, b) == {p \in 0..(SimHashBits - 1) : (p \in a) # (p \in b)}

\* C29: a store holding a record with signature A returns that record for a
\* query B exactly when A and B differ in at most max_hamming bits, found says
\* whether any record was returned, and a store holding B answers a query A
\* the same way
C29_MatchIffWithinMaxHamming ==
    sim_query.op = "query" =>
        /\ sim_query.found <=> sim_query.matches # <<>>
        /\ \A e \in 1..Len(simhash_store.mgr.simhash) :
               LET entry == simhash_store.mgr.simhash[e]
                   near == Cardinality(Differing(entry.sig, sim_query.sig))
                               <= simhash_store.max_hamming
               IN  /\ \A r \in SeqRange(entry.recs) :
                          r \in SeqRange(sim_query.matches) <=> near
                   /\ near <=>
                          SimHashStore_query_within(
                              <<[sig |-> sim_query.sig, recs |-> entry.recs]>>,
                              entry.sig, simhash_store.max_hamming) # <<>>

\* a query matched a record whose signature differs from it in exactly
\* max_hamming bits, and missed a record that differs in more
C29_Witness ==
    /\ sim_query.op = "query"
    /\ sim_query.found
    /\ simhash_store.max_hamming > 0
    /\ \E e \in 1..Len(simhash_store.mgr.simhash) :
           Cardinality(Differing(simhash_store.mgr.simhash[e].sig, sim_query.sig))
               = simhash_store.max_hamming
    /\ \E e \in 1..Len(simhash_store.mgr.simhash) :
           Cardinality(Differing(simhash_store.mgr.simhash[e].sig, sim_query.sig))
               > simhash_store.max_hamming

(***************************************************************************)
(* Properties of the manager's metrics                                      *)
(***************************************************************************)
\* 1 when the verdict is the action, else 0
CountOf(decision, action) == IF decision.action = action THEN 1 ELSE 0

\* C30: every query_and_decide call adds one to total_checked and one to the
\* counter of the verdict it returns (total_dropped for DROP, total_kept for
\* KEEP, total_kept_linked for KEEP_LINK) and leaves the other two alone, so
\* after any sequence of calls the totals are the numbers of calls and verdicts
C30_MetricsCountVerdicts ==
    [][(last'.op = "query" /\ nops' = nops + 1) =>
          /\ mgr'.metrics.total_checked = mgr.metrics.total_checked + 1
          /\ mgr'.metrics.total_dropped =
                 mgr.metrics.total_dropped + CountOf(last'.decision, "DROP")
          /\ mgr'.metrics.total_kept =
                 mgr.metrics.total_kept + CountOf(last'.decision, "KEEP")
          /\ mgr'.metrics.total_kept_linked =
                 mgr.metrics.total_kept_linked + CountOf(last'.decision, "KEEP_LINK")]_vars

(***************************************************************************)
(* Relations between calls of the priority resolver                         *)
(***************************************************************************)
\* the rank the resolver compares for a source under the call's configuration:
\* the type rank, then the source rank when a source priority list is configured
PairRank(source) ==
    IF pcall.fn = "should_keep_incoming_by_type_and_source"
    THEN <<CallTypeRank(source),
           IF pcall.order # <<>> THEN source_priority_rank(source, pcall.order) ELSE 0>>
    ELSE <<0, source_priority_rank(source, pcall.order)>>

\* the answer of the call's function with incoming and existing source swapped
SwappedCall ==
    IF pcall.fn = "should_keep_incoming_by_type_and_source"
    THEN should_keep_incoming_by_type_and_source(pcall.existing[1], <<pcall.incoming>>,
             pcall.type_order, pcall.type_map, pcall.order)
    ELSE should_keep_incoming_by_priority(pcall.existing[1], <<pcall.incoming>>,
             pcall.order)

\* a call of one of the two functions on one incoming and one existing source,
\* under a configuration in which the manager would call it
PairCall ==
    /\ pcall.fn \in {"should_keep_incoming_by_priority",
                     "should_keep_incoming_by_type_and_source"}
    /\ Len(pcall.existing) = 1
    /\ pcall.fn = "should_keep_incoming_by_type_and_source" =>
           pcall.type_order # <<>> /\ DOMAIN pcall.type_map # {}

\* C39: for incoming A and existing [B], the function never answers keep-incoming
\* both for (A, [B]) and for (B, [A]); when the ranks of A and B differ exactly
\* one direction answers keep-incoming, and when they are equal neither does
C39_Antisymmetric ==
    PairCall =>
        /\ ~(pcall.result /\ SwappedCall)
        /\ PairRank(pcall.incoming) # PairRank(pcall.existing[1]) =>
               (pcall.result # SwappedCall)
        /\ PairRank(pcall.incoming) = PairRank(pcall.existing[1]) =>
               (~pcall.result /\ ~SwappedCall)

\* two sources of one type, told apart by the source priority: the incoming
\* one loses and would win in the other direction
C39_Witness ==
    /\ PairCall
    /\ pcall.fn = "should_keep_incoming_by_type_and_source"
    /\ pcall.incoming # pcall.existing[1]
    /\ CallTypeRank(pcall.incoming) = CallTypeRank(pcall.existing[1])
    /\ ~pcall.result
    /\ SwappedCall

(***************************************************************************)
(* Properties of chunk_text                                                 *)
(***************************************************************************)
\* C36: every iteration of the loop of chunk_text moves start strictly forward
\* (so the loop ends after at most len(text) iterations), for every
\* chunk_size > 0 and overlap >= 0
C36_EachIterationAdvances ==
    [][Len(ct_chunks') = Len(ct_chunks) + 1 => ct_start' > ct_start]_vars


\* C33 as stated: the saved checkpoint never covers a rejection that is still in
\* the rejection buffer: every document this process rejected (by a stage or in
\* the exception handler) whose index is below the saved processed_docs has its
\* rejection record in rejections.jsonl on disk
C33_RejectionsOnDiskAtSave ==
    \A n \in DOMAIN routed :
        (n < ckpt_file.processed_docs /\ routed[n].records # <<>>) =>
            \E j \in 1..Len(rejections) : rejections[j] = routed[n].records[1]


\* C37 as stated: when the loop body of document i has ended and i + 1 is a
\* multiple of checkpoint_every_docs, the checkpoint on disk holds
\* processed_docs = i + 1, whether the document was accepted, rejected or ended in
\* the exception handler
C37_CheckpointAtEveryMultiple ==
    (pc = "next" /\ i \in DOMAIN routed /\ (i + 1) % run.ckpt_every = 0) =>
        ckpt_file.processed_docs = i + 1


\* C32 as stated: a shard file that holds a written batch of documents is never
\* written again with a different batch, whatever the process that writes it (the
\* first one or one resumed after a crash)
C32_ShardFilesWriteOnce ==
    [][\A k \in DOMAIN shard_files :
           k \in DOMAIN shard_files' /\ shard_files'[k] = shard_files[k]]_vars


\* C38 as stated: in the saved checkpoint the counters of the input file add up:
\* every document counted as processed is counted as written or as rejected,
\* documents that ended in the exception handler included
C38_ProcessedIsWrittenPlusRejected ==
    ckpt_file.file_stats.processed =
        ckpt_file.file_stats.written + ckpt_file.file_stats.rejected


\* the case of C34: no priority is configured and the stage is handed the text of
\* a document that it accepted and fingerprinted earlier in the same process
C34_Case ==
    /\ last.op = "apply"
    /\ cfg.source_priority = <<>>
    /\ cfg.document_type_priority = <<>>
    /\ \E c \in last.pre_committed : c.live /\ c.text = last.text

C31_SaveChangesOwnEntryOnly ==
    [][\A s \in DOMAIN ckpt_sources :
           \/ src_pc = "loop" /\ s = CurrentSource
           \/ s \in DOMAIN ckpt_sources' /\ ckpt_sources'[s] = ckpt_sources[s]]_vars

C31_Witness ==
    /\ src_pc = "loop"
    /\ doc_count = 2
    /\ CurrentSource \in DOMAIN ckpt_sources
    /\ ckpt_sources[CurrentSource].processed_docs = s_processed + doc_count
    /\ \E t \in DOMAIN ckpt_sources :
           /\ t # CurrentSource
           /\ ckpt_sources[t].processed_docs > 0
           /\ ckpt_sources[t] # ckpt_sources[CurrentSource]

\* C35 as stated: the processed_docs saved when a source is finished is the number
\* of records its own stream has yielded: those skipped on resume plus those the
\* document loop of this process received
C35_FinalCountIsYielded ==
    [][\A s \in finished' \ finished :
           ckpt_sources'[s].processed_docs = s_skipped + doc_count]_vars

\* source t is processed before source s: it is ranked higher under the configured
\* priority, or ranked equal and configured first
ProcessedBefore(t, s) ==
    \/ RankedLower(s, t)
    \/ /\ ~RankedLower(t, s)
       /\ \E j, k \in 1..Len(cfg_sources) :
              j < k /\ cfg_sources[j] = t /\ cfg_sources[k] = s

\* C40: with a priority configuration, when a document of a source goes through
\* the stages (and is queried against the global stores), every source ranked
\* higher by (type rank, source rank), and every source of equal rank configured
\* before it, has been processed to its final checkpoint by this process
C40_DrainedInPriorityOrder ==
    [][(doc_count' = doc_count + 1 /\ ~NoPriorityOn) =>
           \A t \in SeqRange(cfg_sources) :
               ProcessedBefore(t, CurrentSource) => t \in finished]_vars

C40_Witness ==
    /\ src_pc = "loop"
    /\ doc_count > 0
    /\ TypePriorityOn
    /\ cfg.source_priority # <<>>
    /\ cfg_sources = <<"A", "B", "C">>
    /\ CurrentSource = "A"
    /\ finished = {"B", "C"}
    /\ ckpt_sources["C"].processed_docs > 0
    /\ restarts = 1

====
